---- MODULE Spec2Model ----
(***************************************************************************)
(* ZATCA e-invoicing core: the hash-chain sequencer (SequenceService), the *)
(* credential lifecycle (ComplianceService.onboardEgs / issueCsid /        *)
(* issueProductionCsid / revokeEgs) and the submission router with its     *)
(* status reconciliation (submitToZatca / checkInvoiceCompliance /         *)
(* updateSubmissionStatus), over the PostgreSQL tables they read and write.*)
(***************************************************************************)
EXTENDS Integers, Sequences, FiniteSets, TLC

(***************************************************************************)
(* Bounds of the model.                                                    *)
(***************************************************************************)
\* number of allocations started in one behaviour of the concurrent sequencer
MaxAlloc == 2
\* number of allocations in one behaviour of the sequential sequencer
MaxChain == 3
\* number of lifecycle calls of one unit in one run of overlapping calls
MaxEpoch == 3
\* number of requests sent to the authority's invoice endpoints in one behaviour
MaxRequests == 2
\* number of such requests while a unit's life is followed
MaxLiveRequests == 1
\* number of submissions sent by callers whose submissions overlap
MaxOverlap == 3
\* number of allocations started while the database may be unavailable
MaxOutage == 2
\* number of line items of an assembled request
MaxLines == 3
\* number of generateInvoiceXml calls made on one request
MaxCalls == 2
\* number of allocations made of the file-backed sequencer
MaxFileCalls == 3
\* runs of the Signer in one onboarding directory
MaxSignerRuns == 2

(***************************************************************************)
(* Values.                                                                 *)
(***************************************************************************)
\* a JavaScript undefined / SQL NULL
Null == "null"

\* egs.commonName values of the requests; two of them differ only in case
CommonNames == {"ACME", "acme"}

\* concurrent request handlers (possibly of different service instances)
Procs == {"p1", "p2"}

\* new Date().getFullYear().toString().slice(-2): the years the clock shows
Years == {25, 26}

DEFAULT_FIRST_HASH == "NWZlY2ViOTZmOTk1YTRiMGNjM2YwOTUwZGYzMmM2YjQ5ZGEyN2IyOA=="

InvoiceTypeCodes == {"388", "381", "383"}
InvoiceTypeCodeNames == {Null, "0100000", "0200000"}
CustomerTypes == {Null, "B2B", "B2C"}

\* the part of SignInvoiceDto that generateNextSerialNumber reads
SignInvoiceDtos ==
    [commonName : CommonNames,
     invoiceTypeCode : InvoiceTypeCodes,
     invoiceTypeCodeName : InvoiceTypeCodeNames,
     customerType : CustomerTypes]

(***************************************************************************)
(* Pure helpers of SequenceService.generateNextSerialNumber.               *)
(***************************************************************************)
\* commonName.toUpperCase()
ToUpperCase(s) ==
    CASE s = "acme" -> "ACME"
      [] s = "ACME" -> "ACME"
      [] OTHER -> s

\* getOnboardingDir, getOnboardingFilePath: the unit's directory,
\* commonName.toLowerCase().replace(/\s+/g, "_")
DirOf(commonName) ==
    CASE commonName = "ACME" -> "acme"
      [] commonName = "acme" -> "acme"
      [] OTHER -> commonName

\* invoiceTypeCodeName?.startsWith("01")
StartsWith01(name) == name = "0100000"

\* a prefix rule that looks at the business-to-business test first
PrefixOfBusinessFirst(dto) ==
    IF StartsWith01(dto.invoiceTypeCodeName) \/ dto.customerType = "B2B" THEN "SD"
    ELSE IF dto.invoiceTypeCode = "381" THEN "RE"
    ELSE IF dto.invoiceTypeCode = "383" THEN "AD"
    ELSE "SI"

\* step 2 of generateNextSerialNumber: the type prefix
PrefixOf(dto) ==
    IF dto.invoiceTypeCode = "381" THEN "RE"
    ELSE IF dto.invoiceTypeCode = "383" THEN "AD"
    ELSE IF StartsWith01(dto.invoiceTypeCodeName) \/ dto.customerType = "B2B"
         THEN "SD"
         ELSE "SI"

Digit(d) ==
    CASE d = 0 -> "0" [] d = 1 -> "1" [] d = 2 -> "2" [] d = 3 -> "3"
      [] d = 4 -> "4" [] d = 5 -> "5" [] d = 6 -> "6" [] d = 7 -> "7"
      [] d = 8 -> "8" [] d = 9 -> "9"

RECURSIVE NumToString(_)
\* Number.prototype.toString() of a non-negative integer
NumToString(n) ==
    IF n < 10 THEN Digit(n) ELSE NumToString(n \div 10) \o Digit(n % 10)

RECURSIVE PadStart(_, _, _)
\* String.prototype.padStart(len, ch)
PadStart(s, len, ch) ==
    IF Len(s) >= len THEN s ELSE PadStart(ch \o s, len, ch)

\* a serial number built from the entity code as the request spells it
SerialNumberAsSpelled(commonName, prefix, yy, nextCount) ==
    commonName \o "-" \o prefix \o "-" \o NumToString(yy)
        \o "-" \o PadStart(NumToString(nextCount), 8, "0")

\* `${hotelCode}-${prefix}-${year}-${paddedSeq}`
SerialNumberOf(commonName, prefix, yy, nextCount) ==
    ToUpperCase(commonName) \o "-" \o prefix \o "-" \o NumToString(yy)
        \o "-" \o PadStart(NumToString(nextCount), 8, "0")

\* rank of a type prefix in the text ordering of the invoiceNumber column
PrefixRank(prefix) ==
    CASE prefix = "AD" -> 1
      [] prefix = "RE" -> 2
      [] prefix = "SD" -> 3
      [] prefix = "SI" -> 4

\* a.invoiceNumber < b.invoiceNumber in the text ordering of the column, for
\* two invoices of one commonName (equal entity part, equal length)
InvoiceNumberLess(a, b) ==
    \/ PrefixRank(a.prefix) < PrefixRank(b.prefix)
    \/ /\ a.prefix = b.prefix
       /\ \/ a.yy < b.yy
          \/ a.yy = b.yy /\ a.counter < b.counter

\* prisma.invoice.findFirst({where: {commonName}, orderBy: {invoiceNumber: "desc"}})
FindLastInvoice(table, commonName) ==
    LET rows == {i \in 1..Len(table) : table[i].commonName = commonName}
    IN  IF rows = {} THEN <<>>
        ELSE <<table[CHOOSE i \in rows :
                       \A j \in rows \ {i} : InvoiceNumberLess(table[j], table[i])]>>

\* lastInvoice?.hash?.currentInvoiceHash || DEFAULT_FIRST_HASH
\* (lastInvoice is <<>> when findFirst returns null, else <<row>>)
PreviousHashOf(lastInvoice) ==
    IF lastInvoice = <<>> THEN DEFAULT_FIRST_HASH
    ELSE IF lastInvoice[1].currentInvoiceHash = Null THEN DEFAULT_FIRST_HASH
    ELSE lastInvoice[1].currentInvoiceHash

\* the update branch of invoiceCounter.upsert: lastNumber: { increment: 1 }
UpsertNoIncrement(counters, seriesKey) ==
    IF seriesKey \in DOMAIN counters
    THEN counters
    ELSE counters @@ (seriesKey :> 1)

\* the create branch of invoiceCounter.upsert starting the series at 0
UpsertCreateZero(counters, seriesKey) ==
    IF seriesKey \in DOMAIN counters
    THEN [counters EXCEPT ![seriesKey] = @ + 1]
    ELSE counters @@ (seriesKey :> 0)

\* an upsert whose update branch is not restricted to the series key
UpsertEverySeries(counters, seriesKey) ==
    IF seriesKey \in DOMAIN counters
    THEN [k \in DOMAIN counters |-> counters[k] + 1]
    ELSE [k \in DOMAIN counters |-> counters[k] + 1] @@ (seriesKey :> 1)

\* prisma.invoiceCounter.upsert: one atomic statement of the database
UpsertCounter(counters, seriesKey) ==
    IF seriesKey \in DOMAIN counters
    THEN [counters EXCEPT ![seriesKey] = @ + 1]
    ELSE counters @@ (seriesKey :> 1)

\* the digest the Signer returns for the invoice with this sequence number
DigestOf(commonName, counter) ==
    "digest:" \o commonName \o ":" \o NumToString(counter)

(***************************************************************************)
(* Credential lifecycle: values and the row updates of ComplianceService.  *)
(***************************************************************************)
\* callers of the lifecycle endpoints whose calls may overlap
Clients == {"a", "b"}

\* a caller of the router whose calls overlap the lifecycle calls
Callers == {"x", "y"}

\* the caller whose calls are followed where one caller is enough
LiveCallers == {"x"}

\* an HTTP error or timeout of the authority, or a failure of the Signer
HttpError == [httpError |-> TRUE]

\* the authority's answers to POST /compliance
ComplianceResponses ==
    {[requestID |-> "1001", binarySecurityToken |-> "CCSID1", secret |-> "csecret1"],
     [requestID |-> "1002", binarySecurityToken |-> "CCSID2", secret |-> "csecret2"]}

\* the authority's answers to the production-certificate endpoint
ProductionResponses ==
    {[requestID |-> "2001", binarySecurityToken |-> "PCSID1", secret |-> "psecret1"],
     [requestID |-> "2002", binarySecurityToken |-> "PCSID2", secret |-> "psecret2"]}

\* the answers followed where one answer of an endpoint is enough
UnitComplianceResponses == {r \in ComplianceResponses : r.requestID = "1001"}
UnitProductionResponses == {r \in ProductionResponses : r.requestID = "2001"}

\* `-----BEGIN CERTIFICATE-----\n${token}\n-----END CERTIFICATE-----`
WrapPem(token) ==
    "-----BEGIN CERTIFICATE-----\n" \o token \o "\n-----END CERTIFICATE-----"

RawTokens ==
    {r.binarySecurityToken : r \in ComplianceResponses \cup ProductionResponses}

\* certificate.replace(/-----(BEGIN|END) CERTIFICATE-----/gi, "").replace(/[\r\n\s]/g, "")
StripPem(certificate) ==
    IF \E t \in RawTokens : certificate = WrapPem(t)
    THEN CHOOSE t \in RawTokens : certificate = WrapPem(t)
    ELSE certificate

\* ZatcaClientService.issueComplianceCertificate: the data returned on success
IssuedData(response) ==
    [response EXCEPT !.binarySecurityToken = WrapPem(@)]

\* the CSR and the key the n-th run of the Signer in a directory generates:
\* every run makes a new key pair and a generated-csr file of a new name
CsrOf(run) == "csr:" \o ToString(run)
KeyOf(run) == "key:" \o ToString(run)

\* the run of the Signer that onboarded a unit present from the start: ACME
\* was onboarded before acme
FirstRunOf(commonName) == IF commonName = "ACME" THEN 1 ELSE 2

\* createData of onboardEgs: the row of a new unit
NewUnit(csr, privateKey) ==
    [csr |-> csr,
     privateKey |-> privateKey,
     binarySecurityToken |-> Null,
     secret |-> Null,
     requestId |-> Null,
     complianceBinarySecurityToken |-> Null,
     complianceSecret |-> Null,
     complianceRequestId |-> Null,
     productionBinarySecurityToken |-> Null,
     productionSecret |-> Null,
     productionRequestId |-> Null]

\* finishOnboarding: stores the active slot but leaves the compliance slot
WithComplianceActiveOnly(unit, issued) ==
    [unit EXCEPT
       !.binarySecurityToken = issued.binarySecurityToken,
       !.secret = issued.secret,
       !.requestId = issued.requestID]

\* finishOnboarding: the update of the EgsUnit row
WithCompliance(unit, issued) ==
    [unit EXCEPT
       !.complianceBinarySecurityToken = issued.binarySecurityToken,
       !.complianceSecret = issued.secret,
       !.complianceRequestId = issued.requestID,
       !.binarySecurityToken = issued.binarySecurityToken,
       !.secret = issued.secret,
       !.requestId = issued.requestID]

\* issueProductionCsid, step 4: stores the active slot but leaves the
\* production slot
WithProductionActiveOnly(unit, result) ==
    [unit EXCEPT
       !.binarySecurityToken = result.binarySecurityToken,
       !.secret = result.secret,
       !.requestId = result.requestID]

\* issueProductionCsid, step 4: the update of the EgsUnit row
WithProduction(unit, result) ==
    [unit EXCEPT
       !.productionBinarySecurityToken = result.binarySecurityToken,
       !.productionSecret = result.secret,
       !.productionRequestId = result.requestID,
       !.binarySecurityToken = result.binarySecurityToken,
       !.secret = result.secret,
       !.requestId = result.requestID]

\* a revocation that discards the key material with the credentials
RevokedWithKeys(unit) ==
    [unit EXCEPT
       !.csr = Null,
       !.privateKey = Null,
       !.binarySecurityToken = Null,
       !.secret = Null,
       !.productionBinarySecurityToken = Null,
       !.productionSecret = Null,
       !.complianceBinarySecurityToken = Null,
       !.complianceSecret = Null]

\* a revocation that clears the active slot only
RevokedActiveOnly(unit) ==
    [unit EXCEPT
       !.binarySecurityToken = Null,
       !.secret = Null]

\* revokeEgs: the update of the EgsUnit row
Revoked(unit) ==
    [unit EXCEPT
       !.binarySecurityToken = Null,
       !.secret = Null,
       !.productionBinarySecurityToken = Null,
       !.productionSecret = Null,
       !.complianceBinarySecurityToken = Null,
       !.complianceSecret = Null]

\* issueProductionCsid, step 2: compliance credentials or the legacy fields
HasComplianceCredentials(unit) ==
    \/ /\ unit.complianceBinarySecurityToken # Null
       /\ unit.complianceSecret # Null
       /\ unit.complianceRequestId # Null
    \/ /\ unit.binarySecurityToken # Null
       /\ unit.secret # Null
       /\ unit.requestId # Null

\* a || b on nullable strings
OrElse(a, b) == IF a # Null THEN a ELSE b

\* issueProductionCsid: compReqId, compCert, compSecret sent to the authority
ComplianceAuthOf(unit) ==
    [requestId |-> OrElse(unit.complianceRequestId, unit.requestId),
     certificate |-> OrElse(unit.complianceBinarySecurityToken, unit.binarySecurityToken),
     secret |-> OrElse(unit.complianceSecret, unit.secret)]

(***************************************************************************)
(* Pure helpers of XmlTemplateService.generateInvoiceXml.  Amounts are     *)
(* held in hundredths, the precision toFixed(2) prints.                    *)
(***************************************************************************)
\* item.allowanceCharges of the requests: none, or one discount of 10.00
AllowanceChargeLists ==
    {<<>>, <<[chargeIndicator |-> FALSE, amount |-> 1000]>>}

\* item.taxCategory and item.vatPercent of the line items: no category at
\* either rate, or the category spelled out
TaxClasses == {<<Null, 0>>, <<Null, 15>>, <<"S", 15>>, <<"E", 0>>}

\* the line items of the requests: 100.00 each, with the lineId the caller
\* gives them (a free string, not their position)
LineItems ==
    {[lineId |-> v[1],
      taxCategory |-> t[1],
      vatPercent |-> t[2],
      taxExclusiveAmount |-> 10000,
      vatAmount |-> (10000 * t[2]) \div 100,
      allowanceCharges |-> v[2]] :
        t \in TaxClasses,
        v \in ({"1"} \X AllowanceChargeLists) \cup {<<"7", <<>> >>}}

LineItemLists == UNION {[1..n -> LineItems] : n \in 0..MaxLines}

\* the part of dto.invoice that generateInvoiceXml reads
InvoiceHeaders ==
    {[invoiceSerialNumber |-> "ACME-SI-25-00000001",
      invoiceTypeCode |-> "388",
      invoiceTypeCodeName |-> "0200000",
      invoiceCounterNumber |-> 1,
      issueDate |-> stamp[1],
      issueTime |-> stamp[2],
      previousInvoiceHash |-> Null,
      billingReferenceId |-> Null] :
        stamp \in {<<Null, Null>>, <<"2025-01-01", "10:00:00">>}}

AssembleRequests == [invoice : InvoiceHeaders, lineItems : LineItemLists]

\* dto.invoice of a sign request with the type fields of dto, as the caller
\* passes it on to generateInvoiceXml
HeaderOf(dto, icv, previousHash, billingReferenceId) ==
    [invoiceSerialNumber |-> "ACME-SI-25-00000001",
     invoiceTypeCode |-> dto.invoiceTypeCode,
     invoiceTypeCodeName |-> dto.invoiceTypeCodeName,
     invoiceCounterNumber |-> icv,
     issueDate |-> "2025-01-01",
     issueTime |-> "10:00:00",
     previousInvoiceHash |-> previousHash,
     billingReferenceId |-> billingReferenceId]

\* invoice.invoiceCounterNumber, invoice.previousInvoiceHash and
\* invoice.billingReferenceId of the requests (all optional in InvoiceMetaDto)
CounterNumbers == {1, 2}
PreviousHashes == {Null, "digest:ACME:1"}
BillingReferenceIds == {Null, "ACME-SI-25-00000001"}

\* getZatcaDate(timezone), getZatcaTime(timezone): readings of the wall clock
Clocks ==
    {[date |-> "2025-12-26", time |-> "14:30:00"],
     [date |-> "2025-12-27", time |-> "09:00:00"]}

\* crypto.randomUUID(): the values a call may draw
Uuids == {"uuid-1", "uuid-2"}

\* item.taxCategory || (item.vatPercent > 0 ? "S" : "O")
TaxCategoryOf(item) ==
    IF item.taxCategory # Null THEN item.taxCategory
    ELSE IF item.vatPercent > 0 THEN "S" ELSE "O"

\* a map key that ignores the tax category
TaxKeyByPercent(item) ==
    "_" \o NumToString(item.vatPercent)

\* `${cat}_${item.vatPercent}`
TaxKey(item) ==
    TaxCategoryOf(item) \o "_" \o NumToString(item.vatPercent)

RECURSIVE LineNetChange(_)
\* (item.allowanceCharges || []).reduce(...): charges added, allowances subtracted
LineNetChange(allowanceCharges) ==
    IF allowanceCharges = <<>> THEN 0
    ELSE LET n == Len(allowanceCharges)
             ac == allowanceCharges[n]
             sum == LineNetChange(SubSeq(allowanceCharges, 1, n - 1))
         IN  IF ac.chargeIndicator THEN sum + ac.amount ELSE sum - ac.amount

\* one pass of lineItems.forEach over taxSubtotalsMap (a Map keeps its keys
\* in the order of first insertion)
AddToSubtotals(subtotals, item) ==
    LET key == TaxKey(item)
        base == item.taxExclusiveAmount + LineNetChange(item.allowanceCharges)
        seen == {i \in 1..Len(subtotals) : subtotals[i].key = key}
    IN  IF seen = {}
        THEN Append(subtotals,
               [key |-> key,
                taxableAmount |-> 0 + base,
                taxAmount |-> 0 + item.vatAmount,
                percent |-> item.vatPercent,
                category |-> TaxCategoryOf(item)])
        ELSE LET i == CHOOSE j \in seen : TRUE
             IN  [subtotals EXCEPT ![i].taxableAmount = @ + base,
                                   ![i].taxAmount = @ + item.vatAmount]

RECURSIVE TaxSubtotalsOf(_)
\* Array.from(taxSubtotalsMap.values()) after the forEach
TaxSubtotalsOf(lineItems) ==
    IF lineItems = <<>> THEN <<>>
    ELSE LET n == Len(lineItems)
         IN  AddToSubtotals(TaxSubtotalsOf(SubSeq(lineItems, 1, n - 1)), lineItems[n])

\* one <cac:InvoiceLine> block
InvoiceLineOf(item, index) ==
    [id |-> item.lineId,
     lineExtensionAmount |-> item.taxExclusiveAmount,
     allowanceCharges |-> item.allowanceCharges,
     taxAmount |-> item.vatAmount,
     roundingAmount |-> item.taxExclusiveAmount + item.vatAmount
                           + LineNetChange(item.allowanceCharges),
     category |-> TaxCategoryOf(item),
     percent |-> item.vatPercent]

\* generateInvoiceXml: the document returned, element by element
GenerateInvoiceXml(dto, clock, uuid) ==
    LET invoice == dto.invoice
        isStandard == StartsWith01(invoice.invoiceTypeCodeName)
        isNote == invoice.invoiceTypeCode \in {"381", "383"}
    IN  [profileID |-> IF isStandard THEN "clearance:1.0" ELSE "reporting:1.0",
         id |-> invoice.invoiceSerialNumber,
         uuid |-> uuid,
         issueDate |-> OrElse(invoice.issueDate, clock.date),
         issueTime |-> OrElse(invoice.issueTime, clock.time),
         invoiceTypeCodeName |->
             OrElse(invoice.invoiceTypeCodeName,
                    IF isStandard THEN "0111010" ELSE "0211010"),
         invoiceTypeCode |-> OrElse(invoice.invoiceTypeCode, "388"),
         billingReference |->
             IF isNote /\ invoice.billingReferenceId # Null
             THEN <<invoice.billingReferenceId>> ELSE <<>>,
         invoiceCounterNumber |-> invoice.invoiceCounterNumber,
         previousInvoiceHash |->
             OrElse(invoice.previousInvoiceHash, DEFAULT_FIRST_HASH),
         invoiceLines |->
             [i \in 1..Len(dto.lineItems) |-> InvoiceLineOf(dto.lineItems[i], i)],
         taxSubtotals |-> TaxSubtotalsOf(dto.lineItems)]

\* no request is being assembled
NoAssembly == [request |-> Null, clock |-> Null, documents |-> <<>>]

(***************************************************************************)
(* State.                                                                  *)
(***************************************************************************)
VARIABLES
    invoiceCounter,  \* table InvoiceCounter: seriesKey -> lastNumber
    invoices,        \* tables Invoice + InvoiceHash, in order of creation
    year,            \* 2-digit year of the wall clock
    alloc,           \* per handler: the generateNextSerialNumber call in flight
    allocLog,        \* history: the results returned, in order of return
    counterFile,     \* counters.json of the file-backed sequencer, per unit directory
    egsUnit,         \* table EgsUnit: commonName -> <<>> or <<row>>
    life,            \* per client: the lifecycle call in flight
    lastOut,         \* how the call that ended last ended: [op, status]
    revokedUnits,    \* history: units on which revokeEgs has succeeded
    epochBase,       \* history: a unit's row when its lifecycle calls last began to overlap
    epochLog,        \* history: the lifecycle calls of a unit ended since then
    signerDir,       \* the Signer's files in the onboarding directories
    invoiceDocs,     \* table Invoice as the router reads it: id -> row
    submission,      \* table ZatcaSubmission: invoiceId -> row
    gateway,         \* history: the last request sent to the authority's invoice endpoints
    assembly         \* the generateInvoiceXml calls made on one request: input, clock, documents

seqVars == <<invoiceCounter, invoices, year, alloc, allocLog, counterFile>>

lifeVars == <<egsUnit, life, revokedUnits, epochBase, epochLog, signerDir>>

routerVars == <<invoiceDocs, submission, gateway>>

vars == <<invoiceCounter, invoices, year, alloc, allocLog, counterFile,
          egsUnit, life, lastOut, revokedUnits, epochBase, epochLog, signerDir,
          invoiceDocs, submission, gateway, assembly>>

Idle == [pc |-> "idle"]

\* the onboarding directories hold no counters.json
NoCounterFiles == [dir \in {"acme"} |-> [state |-> "missing"]]

\* the onboarding directories hold no file of the Signer
NoSignerFiles ==
    [dir \in {"acme"} |->
       [key |-> Null, generated |-> {}, registration |-> Null, runs |-> 0,
        running |-> {}]]

\* the files left in the directory when its last onboarding was run number
\* `run` of the Signer
SignerFilesOf(run) ==
    [dir \in {"acme"} |->
       [key |-> KeyOf(run), generated |-> {}, registration |-> CsrOf(run),
        runs |-> run, running |-> {}]]

\* no call has ended yet
NoCall == [op |-> "none", status |-> "none"]

\* no request has been sent yet
NoRequest ==
    [n |-> 0, endpoint |-> "none", invoice |-> "none", invoiceHash |-> Null,
     certificate |-> Null, secret |-> Null]

\* the most recently created invoice of a series (issuance order)
LatestIssued(table, commonName) ==
    LET rows == {i \in 1..Len(table) : table[i].commonName = commonName}
    IN  IF rows = {} THEN <<>>
        ELSE <<table[CHOOSE i \in rows : \A j \in rows : j <= i]>>

\* largest sequence number already returned for a series
MaxReturned(log, commonName) ==
    LET cs == {log[i].counter : i \in {j \in 1..Len(log) :
                                        log[j].commonName = commonName}}
    IN  IF cs = {} THEN 0 ELSE CHOOSE c \in cs : \A d \in cs : d <= c

InFlight == {p \in Procs : alloc[p].pc # "idle"}

\* number of allocations started so far: those returned and those under way
Started == Len(allocLog) + Cardinality({p \in Procs : alloc[p].pc \notin {"idle", "allocated"}})

InitSeq ==
    /\ invoiceCounter = <<>>
    /\ invoices = <<>>
    /\ year = CHOOSE y \in Years : \A z \in Years : y <= z
    /\ alloc = [p \in Procs |-> Idle]
    /\ allocLog = <<>>
    /\ counterFile = NoCounterFiles
    /\ egsUnit = [cn \in CommonNames |->
                    <<NewUnit(CsrOf(FirstRunOf(cn)), KeyOf(FirstRunOf(cn)))>>]
    /\ life = [c \in Clients \cup Callers |-> Idle]
    /\ lastOut = NoCall
    /\ revokedUnits = {}
    /\ epochBase = <<>>
    /\ epochLog = <<>>
    /\ signerDir = SignerFilesOf(2)
    /\ invoiceDocs = <<>>
    /\ submission = <<>>
    /\ gateway = NoRequest
    /\ assembly = NoAssembly

(***************************************************************************)
(* generateNextSerialNumber, one action per await.                         *)
(***************************************************************************)
\* lines 15-25: the clock is read and findFirst is sent.  The prefix of lines
\* 47-59 depends on the request alone and is kept from here on
GenerateNextSerialNumber(p, dto, limit) ==
    /\ alloc[p].pc = "idle"
    /\ Started < limit
    /\ alloc' = [alloc EXCEPT ![p] =
            [pc |-> "lookup",
             commonName |-> dto.commonName,
             prefix |-> PrefixOf(dto),
             yy |-> year,
             floor |-> MaxReturned(allocLog, dto.commonName),
             sequential |-> InFlight = {}]]
    /\ UNCHANGED <<invoiceCounter, invoices, year, allocLog, counterFile>>
    /\ UNCHANGED <<lifeVars, lastOut, routerVars, assembly>>

\* lines 25-66: the database answers findFirst from the invoices it holds
\* now; the handler takes the previous hash and sends the upsert
LookupLastInvoice(p) ==
    /\ alloc[p].pc = "lookup"
    /\ LET a == alloc[p]
           issued == LatestIssued(invoices, a.commonName)
       IN alloc' = [alloc EXCEPT ![p] =
            [pc |-> "counter",
             commonName |-> a.commonName,
             prefix |-> a.prefix,
             yy |-> a.yy,
             previousHash |-> PreviousHashOf(FindLastInvoice(invoices, a.commonName)),
             issuedHash |-> IF issued = <<>> THEN DEFAULT_FIRST_HASH
                            ELSE issued[1].currentInvoiceHash,
             floor |-> a.floor,
             sequential |-> a.sequential]]
    /\ UNCHANGED <<invoiceCounter, invoices, year, allocLog, counterFile>>
    /\ UNCHANGED <<lifeVars, lastOut, routerVars, assembly>>

\* lines 66-75: the database applies the upsert; its answer, the row as
\* written, is on its way to the handler
IncrementCounter(p) ==
    /\ alloc[p].pc = "counter"
    /\ LET a == alloc[p]
           counters == UpsertCounter(invoiceCounter, a.commonName)
           nextCount == counters[a.commonName]
           result == [commonName |-> a.commonName,
                      prefix |-> a.prefix,
                      yy |-> a.yy,
                      counter |-> nextCount,
                      serialNumber |-> SerialNumberOf(a.commonName, a.prefix, a.yy, nextCount),
                      previousHash |-> a.previousHash,
                      issuedHash |-> a.issuedHash,
                      floor |-> a.floor,
                      sequential |-> a.sequential]
       IN /\ invoiceCounter' = counters
          /\ alloc' = [alloc EXCEPT ![p] = [pc |-> "upserted", result |-> result]]
    /\ UNCHANGED <<invoices, year, allocLog, counterFile>>
    /\ UNCHANGED <<lifeVars, lastOut, routerVars, assembly>>

\* lines 77-92: the answer of the upsert reaches the handler, which builds
\* the serial number and returns the result
ReturnSerial(p) ==
    /\ alloc[p].pc = "upserted"
    /\ allocLog' = Append(allocLog, alloc[p].result)
    /\ alloc' = [alloc EXCEPT ![p] = [pc |-> "allocated", result |-> alloc[p].result]]
    /\ UNCHANGED <<invoiceCounter, invoices, year, counterFile>>
    /\ UNCHANGED <<lifeVars, lastOut, routerVars, assembly>>

\* the caller signs the document and stores the invoice with its digest;
\* Invoice.invoiceNumber is unique, so a duplicate serial is refused
PersistInvoice(p) ==
    /\ alloc[p].pc = "allocated"
    /\ LET r == alloc[p].result
       IN invoices' =
            IF \E i \in 1..Len(invoices) : invoices[i].invoiceNumber = r.serialNumber
            THEN invoices
            ELSE Append(invoices,
                   [commonName |-> r.commonName,
                    invoiceNumber |-> r.serialNumber,
                    prefix |-> r.prefix,
                    yy |-> r.yy,
                    counter |-> r.counter,
                    previousInvoiceHash |-> r.previousHash,
                    currentInvoiceHash |-> DigestOf(r.commonName, r.counter)])
    /\ alloc' = [alloc EXCEPT ![p] = Idle]
    /\ UNCHANGED <<invoiceCounter, year, allocLog, counterFile>>
    /\ UNCHANGED <<lifeVars, lastOut, routerVars, assembly>>

\* signing fails after the allocation: the number is burnt, nothing is stored
AbandonInvoice(p) ==
    /\ alloc[p].pc = "allocated"
    /\ alloc' = [alloc EXCEPT ![p] = Idle]
    /\ UNCHANGED <<invoiceCounter, invoices, year, allocLog, counterFile>>
    /\ UNCHANGED <<lifeVars, lastOut, routerVars, assembly>>

\* the wall clock passes a new year
NewYear ==
    /\ year + 1 \in Years
    /\ year' = year + 1
    /\ UNCHANGED <<invoiceCounter, invoices, alloc, allocLog, counterFile>>
    /\ UNCHANGED <<lifeVars, lastOut, routerVars, assembly>>

NextSeq ==
    \/ \E p \in Procs, dto \in SignInvoiceDtos : GenerateNextSerialNumber(p, dto, MaxAlloc)
    \/ \E p \in Procs : LookupLastInvoice(p)
    \/ \E p \in Procs : IncrementCounter(p)
    \/ \E p \in Procs : ReturnSerial(p)
    \/ \E p \in Procs : PersistInvoice(p)
    \/ \E p \in Procs : AbandonInvoice(p)
    \/ NewYear

SpecSeq == InitSeq /\ [][NextSeq]_vars

\* one handler serving one request after the other
NextChain ==
    \/ \E dto \in SignInvoiceDtos : GenerateNextSerialNumber("p1", dto, MaxChain)
    \/ LookupLastInvoice("p1")
    \/ IncrementCounter("p1")
    \/ ReturnSerial("p1")
    \/ PersistInvoice("p1")
    \/ AbandonInvoice("p1")
    \/ NewYear

SpecChain == InitSeq /\ [][NextChain]_vars

\* the database is unavailable at the lookup of the last invoice: findFirst
\* throws and the call ends before the counter is touched
LookupFails(p) ==
    /\ alloc[p].pc = "lookup"
    /\ alloc' = [alloc EXCEPT ![p] = Idle]
    /\ lastOut' = [op |-> "generateNextSerialNumber", status |-> "LookupFailed"]
    /\ UNCHANGED <<invoiceCounter, invoices, year, allocLog, counterFile, lifeVars, routerVars, assembly>>

\* a counter update that is applied although the statement reports a failure
IncrementFailsAfterWrite(p) ==
    /\ alloc[p].pc = "counter"
    /\ invoiceCounter' = UpsertCounter(invoiceCounter, alloc[p].commonName)
    /\ alloc' = [alloc EXCEPT ![p] = Idle]
    /\ lastOut' = [op |-> "generateNextSerialNumber", status |-> "UpsertFailed"]
    /\ UNCHANGED <<invoices, year, allocLog, counterFile, lifeVars, routerVars, assembly>>

\* the database is unavailable at the counter update: the upsert throws, no
\* row is written and the call ends without a result
IncrementFails(p) ==
    /\ alloc[p].pc = "counter"
    /\ alloc' = [alloc EXCEPT ![p] = Idle]
    /\ lastOut' = [op |-> "generateNextSerialNumber", status |-> "UpsertFailed"]
    /\ UNCHANGED <<invoiceCounter, invoices, year, allocLog, counterFile, lifeVars, routerVars, assembly>>

\* the requests made while the database may be unavailable
OutageDtos ==
    [commonName : CommonNames,
     invoiceTypeCode : {"388"},
     invoiceTypeCodeName : {"0100000", "0200000"},
     customerType : {Null}]

\* allocations of two handlers, any database call of which may fail
NextOutage ==
    \/ \E p \in Procs, dto \in OutageDtos : GenerateNextSerialNumber(p, dto, MaxOutage)
    \/ \E p \in Procs : LookupLastInvoice(p)
    \/ \E p \in Procs : LookupFails(p)
    \/ \E p \in Procs : IncrementCounter(p)
    \/ \E p \in Procs : ReturnSerial(p)
    \/ \E p \in Procs : IncrementFails(p)
    \/ \E p \in Procs : PersistInvoice(p)
    \/ \E p \in Procs : AbandonInvoice(p)

SpecOutage == InitSeq /\ [][NextOutage]_vars

(***************************************************************************)
(* Credential lifecycle: ComplianceService.onboardEgs, issueCsid,          *)
(* issueProductionCsid and revokeEgs.  A call that awaits the Signer or    *)
(* the authority between reading and writing the EgsUnit row is two        *)
(* actions; nothing in the service orders the calls of one unit.           *)
(***************************************************************************)
\* the part of OnboardEgsDto the handler's control flow depends on
OnboardEgsDtos == [commonName : CommonNames, complete : BOOLEAN]

\* lifecycle calls of a unit that have read its row and not yet ended
InFlightOn(cn) ==
    {c \in Clients : life[c].pc # "idle" /\ life[c].commonName = cn}

\* a result the call did not get as far as obtaining
Unknown == [unknown |-> TRUE]

\* the history of overlapping calls is kept for the units in DOMAIN epochLog
Tracked(cn) == cn \in DOMAIN epochLog

\* a call on cn may begin: it does not make the run of overlapping calls
\* longer than MaxEpoch
MayBegin(cn) ==
    IF Tracked(cn) /\ InFlightOn(cn) # {}
    THEN Len(epochLog[cn]) + Cardinality(InFlightOn(cn)) < MaxEpoch
    ELSE TRUE

\* history kept when a call on cn begins: a call that overlaps no other
\* starts a new run of overlapping calls from the row as it is now
BaseAtBegin(cn) ==
    IF Tracked(cn) /\ InFlightOn(cn) = {}
    THEN [epochBase EXCEPT ![cn] = egsUnit[cn]]
    ELSE epochBase

LogAtBegin(cn) ==
    IF Tracked(cn) /\ InFlightOn(cn) = {}
    THEN [epochLog EXCEPT ![cn] = <<>>]
    ELSE epochLog

\* history kept when a call that reads and ends in one step takes place
Atomically(cn, entry) ==
    /\ epochBase' = BaseAtBegin(cn)
    /\ epochLog' = IF Tracked(cn)
                   THEN [LogAtBegin(cn) EXCEPT ![cn] = Append(@, entry)]
                   ELSE epochLog

\* history kept when a call reads the row and goes on to await an answer
Begin(cn) ==
    /\ epochBase' = BaseAtBegin(cn)
    /\ epochLog' = LogAtBegin(cn)

\* history kept when such a call ends
End(cn, entry) ==
    /\ epochBase' = epochBase
    /\ epochLog' = IF Tracked(cn)
                   THEN [epochLog EXCEPT ![cn] = Append(@, entry)]
                   ELSE epochLog

\* runs of the Signer in the directory of cn: those started, and those the
\* calls that are writing the properties file are about to start
SignerRunsBegun(cn) ==
    signerDir[DirOf(cn)].runs
       + Cardinality({c \in Clients : /\ life[c].pc = "config"
                                     /\ DirOf(life[c].commonName) = DirOf(cn)})

\* onboardEgs up to generateOnboardingData: validation and the existence
\* check
OnboardEgs(c, dto) ==
    LET cn == dto.commonName IN
    /\ life[c].pc = "idle"
    /\ MayBegin(cn)
    /\ IF ~dto.complete
       THEN /\ lastOut' = [op |-> "onboardEgs", status |-> "BadRequest", commonName |-> cn]
            /\ UNCHANGED <<life, epochBase, epochLog>>
       ELSE IF egsUnit[cn] # <<>>
       THEN /\ lastOut' = [op |-> "onboardEgs", status |-> "AlreadyExists", commonName |-> cn]
            /\ Atomically(cn, [op |-> "onboardEgs", client |-> c, resp |-> Unknown])
            /\ UNCHANGED life
       ELSE /\ SignerRunsBegun(cn) < MaxSignerRuns
            /\ life' = [life EXCEPT ![c] = [pc |-> "config", commonName |-> cn]]
            /\ Begin(cn)
            /\ UNCHANGED lastOut
    /\ UNCHANGED <<egsUnit, revokedUnits, signerDir, seqVars, routerVars, assembly>>

\* the names the Signer gives the CSR files it generates
GeneratedCsrFiles == {CsrOf(n) : n \in 1..MaxSignerRuns}

\* the files a run of the Signer writes
SignerOutputs(run) == {<<run, "key">>, <<run, "csr">>}

\* generateOnboardingData, steps 1 and 2: the properties file is written and
\* the Signer is started in the unit's directory; it is the next run there
\* and has both its files still to write
WriteSignerConfig(c) ==
    /\ life[c].pc = "config"
    /\ LET cn == life[c].commonName
           run == signerDir[DirOf(cn)].runs + 1
       IN /\ signerDir' = [signerDir EXCEPT ![DirOf(cn)] =
                             [@ EXCEPT !.runs = run,
                                       !.running = @ \cup SignerOutputs(run)]]
          /\ life' = [life EXCEPT ![c] =
                        [pc |-> "signer", commonName |-> cn, run |-> run]]
    /\ UNCHANGED <<lastOut, epochBase, epochLog>>
    /\ UNCHANGED <<egsUnit, revokedUnits, seqVars, routerVars, assembly>>

\* the Signer, a process of its own, writes egs-signing-key.pem: the key of
\* its run replaces the key the file held.  The process of run `run` in
\* directory dir writes while it runs, whether or not the call that started
\* it is still waiting for it
SignerWritesKey(dir, run) ==
    /\ <<run, "key">> \in signerDir[dir].running
    /\ signerDir' = [signerDir EXCEPT ![dir] =
                       [@ EXCEPT !.key = KeyOf(run),
                                 !.running = @ \ {<<run, "key">>}]]
    /\ UNCHANGED <<life, lastOut, epochBase, epochLog>>
    /\ UNCHANGED <<egsUnit, revokedUnits, seqVars, routerVars, assembly>>

\* the Signer writes its generated-csr file, under a name of its own
SignerWritesCsr(dir, run) ==
    /\ <<run, "csr">> \in signerDir[dir].running
    /\ signerDir' = [signerDir EXCEPT ![dir] =
                       [@ EXCEPT !.generated = @ \cup {CsrOf(run)},
                                 !.running = @ \ {<<run, "csr">>}]]
    /\ UNCHANGED <<life, lastOut, epochBase, epochLog>>
    /\ UNCHANGED <<egsUnit, revokedUnits, seqVars, routerVars, assembly>>

\* how cliExecutor.execute returns: the Signer has ended with exit code 0 and
\* no [ERROR] line; it has ended with another exit code or an [ERROR] line;
\* or the timeout of execute has passed, which signals the shell and leaves
\* the Signer running
SignerResults == {"ok", "error", "timeout"}

\* generateOnboardingData, the return of execute, whichever of its files the
\* Signer has written: a result other than ok ends onboardEgs; a Signer that
\* has ended writes no more, one left running by the timeout may
RunSigner(c, result) ==
    /\ life[c].pc = "signer"
    /\ LET cn == life[c].commonName IN
       /\ signerDir' =
             IF result = "timeout" THEN signerDir
             ELSE [signerDir EXCEPT ![DirOf(cn)].running =
                                       @ \ SignerOutputs(life[c].run)]
       /\ IF result # "ok"
          THEN /\ lastOut' = [op |-> "onboardEgs", status |-> "SignerError", commonName |-> cn]
               /\ End(cn, [op |-> "onboardEgs", client |-> c, resp |-> HttpError])
               /\ life' = [life EXCEPT ![c] = Idle]
          ELSE /\ life' = [life EXCEPT ![c] = [pc |-> "signed", commonName |-> cn]]
               /\ UNCHANGED <<lastOut, epochBase, epochLog>>
    /\ UNCHANGED <<egsUnit, revokedUnits, seqVars, routerVars, assembly>>

\* generateOnboardingData, step 3: fileManager.exists(privateKeyPath); a
\* directory without egs-signing-key.pem ends onboardEgs
CheckSignerKey(c) ==
    /\ life[c].pc = "signed"
    /\ LET cn == life[c].commonName IN
       IF signerDir[DirOf(cn)].key = Null
       THEN /\ lastOut' = [op |-> "onboardEgs", status |-> "NoKeyFile", commonName |-> cn]
            /\ End(cn, [op |-> "onboardEgs", client |-> c, resp |-> HttpError])
            /\ life' = [life EXCEPT ![c] = Idle]
       ELSE /\ life' = [life EXCEPT ![c] = [pc |-> "key", commonName |-> cn]]
            /\ UNCHANGED <<lastOut, epochBase, epochLog>>
    /\ UNCHANGED <<egsUnit, revokedUnits, signerDir, seqVars, routerVars, assembly>>

\* egs-signing-key.pem is read: the key the file holds now
ReadSignerKey(c) ==
    /\ life[c].pc = "key"
    /\ life' = [life EXCEPT ![c] =
                  [pc |-> "list", commonName |-> life[c].commonName,
                   privateKey |-> signerDir[DirOf(life[c].commonName)].key]]
    /\ UNCHANGED <<lastOut, epochBase, epochLog>>
    /\ UNCHANGED <<egsUnit, revokedUnits, signerDir, seqVars, routerVars, assembly>>

\* fs.readdir and files.find: file is the generated-csr file the listing of
\* the directory shows first
FindGeneratedCsr(c, file) ==
    /\ life[c].pc = "list"
    /\ LET cn == life[c].commonName IN
       IF signerDir[DirOf(cn)].generated = {}
       THEN /\ lastOut' = [op |-> "onboardEgs", status |-> "NoCsrFile", commonName |-> cn]
            /\ End(cn, [op |-> "onboardEgs", client |-> c, resp |-> HttpError])
            /\ life' = [life EXCEPT ![c] = Idle]
       ELSE /\ file \in signerDir[DirOf(cn)].generated
            /\ life' = [life EXCEPT ![c] =
                          [pc |-> "rename", commonName |-> cn,
                           privateKey |-> life[c].privateKey, file |-> file]]
            /\ UNCHANGED <<lastOut, epochBase, epochLog>>
    /\ UNCHANGED <<egsUnit, revokedUnits, signerDir, seqVars, routerVars, assembly>>

\* fs.rename of the file found to egs-registration.csr
RenameCsr(c) ==
    /\ life[c].pc = "rename"
    /\ LET cn == life[c].commonName IN
       IF life[c].file \notin signerDir[DirOf(cn)].generated
       THEN /\ lastOut' = [op |-> "onboardEgs", status |-> "ENOENT", commonName |-> cn]
            /\ End(cn, [op |-> "onboardEgs", client |-> c, resp |-> HttpError])
            /\ life' = [life EXCEPT ![c] = Idle]
            /\ UNCHANGED signerDir
       ELSE /\ signerDir' = [signerDir EXCEPT ![DirOf(cn)] =
                               [@ EXCEPT !.generated = @ \ {life[c].file},
                                         !.registration = life[c].file]]
            /\ life' = [life EXCEPT ![c] =
                          [pc |-> "csr", commonName |-> cn,
                           privateKey |-> life[c].privateKey]]
            /\ UNCHANGED <<lastOut, epochBase, epochLog>>
    /\ UNCHANGED <<egsUnit, revokedUnits, seqVars, routerVars, assembly>>

\* egs-registration.csr is read; createData is built from it and the key
ReadCsr(c) ==
    /\ life[c].pc = "csr"
    /\ life' = [life EXCEPT ![c] =
                  [pc |-> "create", commonName |-> life[c].commonName,
                   unit |-> NewUnit(signerDir[DirOf(life[c].commonName)].registration,
                                    life[c].privateKey)]]
    /\ UNCHANGED <<lastOut, epochBase, epochLog>>
    /\ UNCHANGED <<egsUnit, revokedUnits, signerDir, seqVars, routerVars, assembly>>

\* createEgsUnit as an upsert: an existing row is replaced
CreateEgsUnitOverwrites(c) ==
    /\ life[c].pc = "create"
    /\ LET cn == life[c].commonName IN
       /\ lastOut' = [op |-> "onboardEgs", status |-> "ok", commonName |-> cn]
       /\ egsUnit' = [egsUnit EXCEPT ![cn] = <<life[c].unit>>]
       /\ End(cn, [op |-> "onboardEgs", client |-> c, resp |-> life[c].unit])
    /\ life' = [life EXCEPT ![c] = Idle]
    /\ UNCHANGED <<revokedUnits, signerDir, seqVars, routerVars, assembly>>

\* onboardEgs, step 5: complianceRepo.createEgsUnit (commonName is unique)
CreateEgsUnit(c) ==
    /\ life[c].pc = "create"
    /\ LET cn == life[c].commonName IN
       /\ IF egsUnit[cn] # <<>>
          THEN /\ lastOut' = [op |-> "onboardEgs", status |-> "P2002", commonName |-> cn]
               /\ UNCHANGED egsUnit
          ELSE /\ lastOut' = [op |-> "onboardEgs", status |-> "ok", commonName |-> cn]
               /\ egsUnit' = [egsUnit EXCEPT ![cn] = <<life[c].unit>>]
       /\ End(cn, [op |-> "onboardEgs", client |-> c, resp |-> life[c].unit])
    /\ life' = [life EXCEPT ![c] = Idle]
    /\ UNCHANGED <<revokedUnits, signerDir, seqVars, routerVars, assembly>>

\* issueCsid: read the unit's CSR
IssueCsid(c, cn) ==
    /\ life[c].pc = "idle"
    /\ MayBegin(cn)
    /\ IF egsUnit[cn] = <<>> \/ (egsUnit[cn] # <<>> /\ egsUnit[cn][1].csr = Null)
       THEN /\ lastOut' = [op |-> "issueCsid", status |-> "NotFound", commonName |-> cn]
            /\ Atomically(cn, [op |-> "issueCsid", client |-> c, resp |-> Unknown])
            /\ UNCHANGED life
       ELSE /\ life' = [life EXCEPT ![c] =
                          [pc |-> "compliance", commonName |-> cn,
                           csr |-> egsUnit[cn][1].csr]]
            /\ Begin(cn)
            /\ UNCHANGED lastOut
    /\ UNCHANGED <<egsUnit, revokedUnits, signerDir, seqVars, routerVars, assembly>>

\* finishOnboarding that empties the active slot when the authority fails
FinishOnboardingPartial(c, response) ==
    /\ life[c].pc = "compliance"
    /\ LET cn == life[c].commonName IN
       /\ IF egsUnit[cn] = <<>>
          THEN /\ lastOut' = [op |-> "issueCsid", status |-> "P2025", commonName |-> cn]
               /\ UNCHANGED <<egsUnit>>
          ELSE IF response = HttpError
          THEN /\ lastOut' = [op |-> "issueCsid", status |-> "BadRequest", commonName |-> cn]
               /\ egsUnit' = [egsUnit EXCEPT ![cn] =
                                <<[@[1] EXCEPT !.binarySecurityToken = Null,
                                               !.secret = Null]>>]
          ELSE /\ lastOut' = [op |-> "issueCsid", status |-> "ok", commonName |-> cn]
               /\ egsUnit' = [egsUnit EXCEPT ![cn] =
                                <<WithCompliance(@[1], IssuedData(response))>>]
       /\ End(cn, [op |-> "issueCsid", client |-> c, resp |-> response])
    /\ life' = [life EXCEPT ![c] = Idle]
    /\ UNCHANGED <<revokedUnits, signerDir, seqVars, routerVars, assembly>>

\* finishOnboarding: the authority answers, the credentials are stored
FinishOnboarding(c, response) ==
    /\ life[c].pc = "compliance"
    /\ LET cn == life[c].commonName IN
       /\ IF response = HttpError
          THEN /\ lastOut' = [op |-> "issueCsid", status |-> "BadRequest", commonName |-> cn]
               /\ UNCHANGED <<egsUnit>>
          ELSE IF egsUnit[cn] = <<>>
          THEN /\ lastOut' = [op |-> "issueCsid", status |-> "P2025", commonName |-> cn]
               /\ UNCHANGED <<egsUnit>>
          ELSE /\ lastOut' = [op |-> "issueCsid", status |-> "ok", commonName |-> cn]
               /\ egsUnit' = [egsUnit EXCEPT ![cn] =
                                <<WithCompliance(@[1], IssuedData(response))>>]
       /\ End(cn, [op |-> "issueCsid", client |-> c, resp |-> response])
    /\ life' = [life EXCEPT ![c] = Idle]
    /\ UNCHANGED <<revokedUnits, signerDir, seqVars, routerVars, assembly>>

\* issueProductionCsid, steps 1-2: read the unit, require compliance credentials
IssueProductionCsid(c, cn) ==
    /\ life[c].pc = "idle"
    /\ MayBegin(cn)
    /\ IF egsUnit[cn] = <<>>
       THEN /\ lastOut' = [op |-> "issueProductionCsid", status |-> "NotFound", commonName |-> cn]
            /\ Atomically(cn, [op |-> "issueProductionCsid", client |-> c, resp |-> Unknown])
            /\ UNCHANGED life
       ELSE IF ~HasComplianceCredentials(egsUnit[cn][1])
       THEN /\ lastOut' = [op |-> "issueProductionCsid", status |-> "BadRequest", commonName |-> cn]
            /\ Atomically(cn, [op |-> "issueProductionCsid", client |-> c, resp |-> Unknown])
            /\ UNCHANGED life
       ELSE /\ life' = [life EXCEPT ![c] =
                          [pc |-> "production", commonName |-> cn,
                           auth |-> ComplianceAuthOf(egsUnit[cn][1])]]
            /\ Begin(cn)
            /\ UNCHANGED lastOut
    /\ UNCHANGED <<egsUnit, revokedUnits, signerDir, seqVars, routerVars, assembly>>

\* issueProductionCsid, steps 3-4: the authority answers, the credentials are stored
FinishProduction(c, result) ==
    /\ life[c].pc = "production"
    /\ LET cn == life[c].commonName IN
       /\ IF result = HttpError
          THEN /\ lastOut' = [op |-> "issueProductionCsid", status |-> "BadRequest", commonName |-> cn]
               /\ UNCHANGED <<egsUnit>>
          ELSE IF egsUnit[cn] = <<>>
          THEN /\ lastOut' = [op |-> "issueProductionCsid", status |-> "P2025", commonName |-> cn]
               /\ UNCHANGED <<egsUnit>>
          ELSE /\ lastOut' = [op |-> "issueProductionCsid", status |-> "ok", commonName |-> cn]
               /\ egsUnit' = [egsUnit EXCEPT ![cn] = <<WithProduction(@[1], result)>>]
       /\ End(cn, [op |-> "issueProductionCsid", client |-> c, resp |-> result])
    /\ life' = [life EXCEPT ![c] = Idle]
    /\ UNCHANGED <<revokedUnits, signerDir, seqVars, routerVars, assembly>>

\* revokeEgs: one update of the row
RevokeEgs(c, cn) ==
    /\ life[c].pc = "idle"
    /\ MayBegin(cn)
    /\ IF egsUnit[cn] = <<>>
       THEN /\ lastOut' = [op |-> "revokeEgs", status |-> "P2025", commonName |-> cn]
            /\ UNCHANGED <<egsUnit, revokedUnits>>
       ELSE /\ lastOut' = [op |-> "revokeEgs", status |-> "ok", commonName |-> cn]
            /\ egsUnit' = [egsUnit EXCEPT ![cn] = <<Revoked(@[1])>>]
            /\ revokedUnits' = revokedUnits \cup {cn}
    /\ Atomically(cn, [op |-> "revokeEgs", client |-> c, resp |-> Unknown])
    /\ UNCHANGED <<life, signerDir, seqVars, routerVars, assembly>>

\* the unit whose overlapping lifecycle calls are followed
RaceUnits == {"ACME"}

InitRace ==
    /\ invoiceCounter = <<>>
    /\ invoices = <<>>
    /\ year = CHOOSE y \in Years : \A z \in Years : y <= z
    /\ alloc = [p \in Procs |-> Idle]
    /\ allocLog = <<>>
    /\ counterFile = NoCounterFiles
    /\ egsUnit = [cn \in CommonNames |-> <<>>]
    /\ life = [c \in Clients \cup Callers |-> Idle]
    /\ lastOut = NoCall
    /\ revokedUnits = {}
    /\ epochBase = [cn \in RaceUnits |-> <<>>]
    /\ epochLog = [cn \in RaceUnits |-> <<>>]
    /\ signerDir = NoSignerFiles
    /\ invoiceDocs = <<>>
    /\ submission = <<>>
    /\ gateway = NoRequest
    /\ assembly = NoAssembly

NextRace ==
    \/ \E c \in Clients, dto \in [commonName : RaceUnits, complete : BOOLEAN] :
          OnboardEgs(c, dto)
    \/ \E c \in Clients : WriteSignerConfig(c)
    \/ \E dir \in DOMAIN signerDir, run \in 1..MaxSignerRuns : SignerWritesKey(dir, run)
    \/ \E dir \in DOMAIN signerDir, run \in 1..MaxSignerRuns : SignerWritesCsr(dir, run)
    \/ \E c \in Clients, result \in SignerResults : RunSigner(c, result)
    \/ \E c \in Clients : CheckSignerKey(c)
    \/ \E c \in Clients : ReadSignerKey(c)
    \/ \E c \in Clients, f \in GeneratedCsrFiles : FindGeneratedCsr(c, f)
    \/ \E c \in Clients : RenameCsr(c)
    \/ \E c \in Clients : ReadCsr(c)
    \/ \E c \in Clients : CreateEgsUnit(c)
    \/ \E c \in Clients, cn \in RaceUnits : IssueCsid(c, cn)
    \/ \E c \in Clients, r \in ComplianceResponses \cup {HttpError} : FinishOnboarding(c, r)
    \/ \E c \in Clients, cn \in RaceUnits : IssueProductionCsid(c, cn)
    \/ \E c \in Clients, r \in UnitProductionResponses \cup {HttpError} :
          FinishProduction(c, r)
    \/ \E c \in Clients, cn \in RaceUnits : RevokeEgs(c, cn)

SpecRace == InitRace /\ [][NextRace]_vars

\* the same overlapping calls on one unit, without the history of the calls
InitPair ==
    /\ invoiceCounter = <<>>
    /\ invoices = <<>>
    /\ year = CHOOSE y \in Years : \A z \in Years : y <= z
    /\ alloc = [p \in Procs |-> Idle]
    /\ allocLog = <<>>
    /\ counterFile = NoCounterFiles
    /\ egsUnit = [cn \in CommonNames |-> <<>>]
    /\ life = [c \in Clients \cup Callers |-> Idle]
    /\ lastOut = NoCall
    /\ revokedUnits = {}
    /\ epochBase = <<>>
    /\ epochLog = <<>>
    /\ signerDir = NoSignerFiles
    /\ invoiceDocs = <<>>
    /\ submission = <<>>
    /\ gateway = NoRequest
    /\ assembly = NoAssembly

SpecPair == InitPair /\ [][NextRace]_vars

(***************************************************************************)
(* Submission router and status reconciliation: submitToZatca,             *)
(* checkInvoiceCompliance, updateSubmissionStatus and                      *)
(* ComplianceRepository.updateSubmissionStatus.                            *)
(***************************************************************************)
\* response.data of the authority's invoice endpoints, as far as it is read:
\* reportingStatus, clearanceStatus and validationResults?.status
ZatcaResults ==
    [reportingStatus : {Null, "REPORTED", "NOT_REPORTED"},
     clearanceStatus : {Null, "CLEARED", "NOT_CLEARED"},
     validationStatus : {Null, "PASS", "ERROR"}]

\* the invoice numbers the callers ask for
SerialInputs ==
    {"ACME-SD-25-00000001", "acme-sd-25-00000001", "ACME-SI-25-00000002",
     "ACME-SI-25-00000003", "ACME-SI-25-00000009"}

\* the part of SubmitZatcaDto / CheckComplianceDto that decides what is done
\* (dto.production only selects the base URL)
SubmitZatcaDtos ==
    [commonName : {"ACME"}, invoiceSerialNumber : SerialInputs]
      \cup [commonName : {"acme"}, invoiceSerialNumber : {"ACME-SD-25-00000001"}]

\* the Invoice rows, with their InvoiceHash, that the router works on
SignedInvoices ==
    [id \in {"i1", "i2", "i3", "i4"} |->
       CASE id = "i1" ->
              [commonName |-> "ACME", invoiceNumber |-> "ACME-SD-25-00000001",
               invoiceTypeCodeName |-> "0100000", uuid |-> "uuid-1",
               signedXml |-> "<Invoice>1</Invoice>",
               currentInvoiceHash |-> "digest:ACME:1", status |-> "ISSUED"]
         [] id = "i2" ->
              [commonName |-> "ACME", invoiceNumber |-> "ACME-SI-25-00000002",
               invoiceTypeCodeName |-> "0200000", uuid |-> "uuid-2",
               signedXml |-> "<Invoice>2</Invoice>",
               currentInvoiceHash |-> "digest:ACME:2", status |-> "ISSUED"]
         [] id = "i3" ->
              [commonName |-> "ACME", invoiceNumber |-> "ACME-SI-25-00000003",
               invoiceTypeCodeName |-> "0200000", uuid |-> "uuid-3",
               signedXml |-> Null,
               currentInvoiceHash |-> Null, status |-> "ISSUED"]
         [] id = "i4" ->
              [commonName |-> "ACME", invoiceNumber |-> "ACME-SI-25-00000004",
               invoiceTypeCodeName |-> "0200000", uuid |-> "uuid-4",
               signedXml |-> "<Invoice>4</Invoice>",
               currentInvoiceHash |-> Null, status |-> "ISSUED"]]

\* the invoices that hold a signed document and its digest
SignedIds ==
    {id \in DOMAIN SignedInvoices :
        /\ SignedInvoices[id].signedXml # Null
        /\ SignedInvoices[id].currentInvoiceHash # Null}

\* the comparison of invoiceNumber with mode: "insensitive"
FoldCase(s) ==
    IF s = "acme-sd-25-00000001" THEN "ACME-SD-25-00000001" ELSE s

\* InvoiceRepository.findByInvoiceNumber: the ids of the rows found
FindByInvoiceNumber(docs, invoiceNumber) ==
    {id \in DOMAIN docs :
        FoldCase(docs[id].invoiceNumber) = FoldCase(invoiceNumber)}

\* a test that accepts any row of the unit, with or without tokens
HasRow(row) == row # <<>>

\* egsUnit && egsUnit.binarySecurityToken && egsUnit.secret
HasTokens(row) ==
    /\ row # <<>>
    /\ row[1].binarySecurityToken # Null
    /\ row[1].secret # Null

\* what the router's handlers use of the row findByCommonName returns: the
\* token and the secret
TokensRead(row) ==
    IF row = <<>> THEN <<>>
    ELSE <<[binarySecurityToken |-> row[1].binarySecurityToken,
            secret |-> row[1].secret]>>

\* the requests sent to the authority and those that calls which have read
\* tokens are about to send
RequestsBegun ==
    gateway.n + Cardinality({c \in DOMAIN life :
                               /\ life[c].pc \in {"submitRead", "checkRead"}
                               /\ HasTokens(life[c].unit)})

\* invoice.invoiceTypeCodeName.startsWith("01")
IsStandard(doc) == StartsWith01(doc.invoiceTypeCodeName)

\* a submission type that ignores the invoice's profile
SubmissionTypeAlwaysReporting(doc) == "REPORTING"

\* isStandard ? "CLEARANCE" : "REPORTING"
SubmissionTypeOf(doc) == IF IsStandard(doc) THEN "CLEARANCE" ELSE "REPORTING"

\* the reconciliation without the validationResults.status signal
OverallStatusNoPass(result, isStandard) ==
    IF \/ result.reportingStatus = "REPORTED"
       \/ result.clearanceStatus = "CLEARED"
    THEN IF isStandard THEN "CLEARED" ELSE "REPORTED"
    ELSE "FAILED"

\* the reconciliation without the reportingStatus signal
OverallStatusNoReported(result, isStandard) ==
    IF \/ result.clearanceStatus = "CLEARED"
       \/ result.validationStatus = "PASS"
    THEN IF isStandard THEN "CLEARED" ELSE "REPORTED"
    ELSE "FAILED"

\* updateSubmissionStatus: the overall status mapping
OverallStatus(result, isStandard) ==
    IF \/ result.reportingStatus = "REPORTED"
       \/ result.clearanceStatus = "CLEARED"
       \/ result.validationStatus = "PASS"
    THEN IF isStandard THEN "CLEARED" ELSE "REPORTED"
    ELSE "FAILED"

\* an upsert whose update branch sets attemptCount instead of incrementing it
UpsertSubmissionResets(table, id, submissionType, overallStatus, result) ==
    table @@ (id :>
        [submissionType |-> submissionType,
         zatcaStatus |-> overallStatus,
         reportingStatus |-> result.reportingStatus,
         clearanceStatus |-> result.clearanceStatus,
         zatcaResponse |-> result,
         attemptCount |-> 1])

\* an upsert whose update branch keeps a success status once it is stored
UpsertSubmissionKeepsSuccess(table, id, submissionType, overallStatus, result) ==
    IF id \in DOMAIN table
    THEN [table EXCEPT ![id] =
            [@ EXCEPT !.zatcaStatus =
                          IF @ \in {"CLEARED", "REPORTED"} THEN @ ELSE overallStatus,
                      !.reportingStatus = result.reportingStatus,
                      !.clearanceStatus = result.clearanceStatus,
                      !.zatcaResponse = result,
                      !.attemptCount = @ + 1]]
    ELSE table @@ (id :>
            [submissionType |-> submissionType,
             zatcaStatus |-> overallStatus,
             reportingStatus |-> result.reportingStatus,
             clearanceStatus |-> result.clearanceStatus,
             zatcaResponse |-> result,
             attemptCount |-> 1])

\* ComplianceRepository.updateSubmissionStatus: the zatcaSubmission.upsert
UpsertSubmission(table, id, submissionType, overallStatus, result) ==
    IF id \in DOMAIN table
    THEN [table EXCEPT ![id] =
            [@ EXCEPT !.zatcaStatus = overallStatus,
                      !.reportingStatus = result.reportingStatus,
                      !.clearanceStatus = result.clearanceStatus,
                      !.zatcaResponse = result,
                      !.attemptCount = @ + 1]]
    ELSE table @@ (id :>
            [submissionType |-> submissionType,
             zatcaStatus |-> overallStatus,
             reportingStatus |-> result.reportingStatus,
             clearanceStatus |-> result.clearanceStatus,
             zatcaResponse |-> result,
             attemptCount |-> 1])

\* attemptCount of an invoice, 0 when it has no ZatcaSubmission row
AttemptCount(table, id) ==
    IF id \in DOMAIN table THEN table[id].attemptCount ELSE 0

\* a call that sends its request and, unanswered, sends it once more
RequestSentAgain(endpoint, id, doc, unit) ==
    [n |-> gateway.n + 2,
     endpoint |-> endpoint,
     invoice |-> id,
     invoiceHash |-> doc.currentInvoiceHash,
     certificate |-> StripPem(unit.binarySecurityToken),
     secret |-> unit.secret]

\* the request sent by checkCompliance / clearInvoice / reportInvoice
Request(endpoint, id, doc, unit) ==
    [n |-> gateway.n + 1,
     endpoint |-> endpoint,
     invoice |-> id,
     invoiceHash |-> doc.currentInvoiceHash,
     certificate |-> StripPem(unit.binarySecurityToken),
     secret |-> unit.secret]

\* a reconciliation that commits the submission row without the invoice row
ReconcileSubmissionOnly(id, result) ==
    LET doc == invoiceDocs[id]
        overallStatus == OverallStatus(result, IsStandard(doc))
    IN /\ submission' = UpsertSubmission(submission, id, SubmissionTypeOf(doc),
                                         overallStatus, result)
       /\ invoiceDocs' = invoiceDocs

\* updateSubmissionStatus for an answered request: both writes of the transaction
Reconcile(id, result) ==
    LET doc == invoiceDocs[id]
        overallStatus == OverallStatus(result, IsStandard(doc))
    IN /\ submission' = UpsertSubmission(submission, id, SubmissionTypeOf(doc),
                                         overallStatus, result)
       /\ invoiceDocs' = [invoiceDocs EXCEPT ![id].status = overallStatus]

\* submitToZatca, lines 1023-1043: the invoice is loaded and the database
\* reads the unit; the row as read is on its way to the handler
SubmitToZatca(c, dto, limit) ==
    LET found == FindByInvoiceNumber(invoiceDocs, dto.invoiceSerialNumber)
        id == CHOOSE i \in found : TRUE
        doc == invoiceDocs[id]
    IN
    /\ life[c].pc = "idle"
    /\ IF \/ found = {}
          \/ doc.signedXml = Null
          \/ doc.currentInvoiceHash = Null
       THEN /\ lastOut' = [op |-> "submitToZatca", status |-> "NotFound"]
            /\ UNCHANGED life
       ELSE /\ HasTokens(egsUnit[dto.commonName]) => RequestsBegun < limit
            /\ life' = [life EXCEPT ![c] =
                          [pc |-> "submitRead", invoice |-> id,
                           commonName |-> dto.commonName,
                           endpoint |-> IF IsStandard(doc) THEN "clearance"
                                        ELSE "reporting",
                           unit |-> TokensRead(egsUnit[dto.commonName])]]
            /\ UNCHANGED lastOut
    /\ UNCHANGED <<invoiceDocs, submission, gateway, egsUnit, revokedUnits, epochBase,
                   epochLog, signerDir, seqVars, assembly>>

\* submitToZatca, lines 1043-1080: the row read reaches the handler, which
\* refuses a unit without tokens or sends the invoice with the tokens read
SendToZatca(c) ==
    /\ life[c].pc = "submitRead"
    /\ IF ~HasTokens(life[c].unit)
       THEN /\ lastOut' = [op |-> "submitToZatca", status |-> "NotFound"]
            /\ life' = [life EXCEPT ![c] = Idle]
            /\ UNCHANGED gateway
       ELSE /\ gateway' = Request(life[c].endpoint, life[c].invoice,
                                  invoiceDocs[life[c].invoice], life[c].unit[1])
            /\ life' = [life EXCEPT ![c] =
                          [pc |-> "gateway", invoice |-> life[c].invoice,
                           endpoint |-> life[c].endpoint]]
            /\ UNCHANGED lastOut
    /\ UNCHANGED <<invoiceDocs, submission, egsUnit, revokedUnits, epochBase, epochLog, signerDir,
                   seqVars, assembly>>

\* submitToZatca from the answer on: an error is thrown to the caller, an
\* answer is reconciled
ReceiveAnswer(c, outcome) ==
    /\ life[c].pc = "gateway"
    /\ IF outcome = HttpError
       THEN /\ lastOut' = [op |-> "submitToZatca", status |-> "BadRequest"]
            /\ UNCHANGED <<invoiceDocs, submission>>
       ELSE /\ lastOut' = [op |-> "submitToZatca", status |-> "ok"]
            /\ Reconcile(life[c].invoice, outcome)
    /\ life' = [life EXCEPT ![c] = Idle]
    /\ UNCHANGED <<gateway, egsUnit, revokedUnits, epochBase, epochLog, signerDir, seqVars, assembly>>

\* checkInvoiceCompliance, lines 944-966: the invoice is loaded and the
\* database reads the unit; the row as read is on its way to the handler
CheckInvoiceCompliance(c, dto, limit) ==
    LET found == FindByInvoiceNumber(invoiceDocs, dto.invoiceSerialNumber)
        id == CHOOSE i \in found : TRUE
        doc == invoiceDocs[id]
    IN
    /\ life[c].pc = "idle"
    /\ IF found = {}
       THEN /\ lastOut' = [op |-> "checkInvoiceCompliance", status |-> "NotFound"]
            /\ UNCHANGED life
       ELSE IF doc.signedXml = Null
       THEN /\ lastOut' = [op |-> "checkInvoiceCompliance", status |-> "BadRequest"]
            /\ UNCHANGED life
       ELSE /\ (/\ HasTokens(egsUnit[dto.commonName])
                /\ doc.currentInvoiceHash # Null) => RequestsBegun < limit
            /\ life' = [life EXCEPT ![c] =
                          [pc |-> "checkRead", invoice |-> id,
                           commonName |-> dto.commonName,
                           unit |-> TokensRead(egsUnit[dto.commonName])]]
            /\ UNCHANGED lastOut
    /\ UNCHANGED <<invoiceDocs, submission, gateway, egsUnit, revokedUnits, epochBase,
                   epochLog, signerDir, seqVars, assembly>>

\* checkInvoiceCompliance, lines 966-989: the row read reaches the handler,
\* which refuses a unit without tokens or an invoice without hash, or sends
\* the invoice to the compliance-check endpoint with the tokens read
SendComplianceCheck(c) ==
    /\ life[c].pc = "checkRead"
    /\ IF ~HasTokens(life[c].unit)
       THEN /\ lastOut' = [op |-> "checkInvoiceCompliance", status |-> "NotFound"]
            /\ life' = [life EXCEPT ![c] = Idle]
            /\ UNCHANGED gateway
       ELSE IF invoiceDocs[life[c].invoice].currentInvoiceHash = Null
       THEN /\ lastOut' = [op |-> "checkInvoiceCompliance", status |-> "BadRequest"]
            /\ life' = [life EXCEPT ![c] = Idle]
            /\ UNCHANGED gateway
       ELSE /\ gateway' = Request("compliance", life[c].invoice,
                                  invoiceDocs[life[c].invoice], life[c].unit[1])
            /\ life' = [life EXCEPT ![c] = [pc |-> "check", invoice |-> life[c].invoice]]
            /\ UNCHANGED lastOut
    /\ UNCHANGED <<invoiceDocs, submission, egsUnit, revokedUnits, epochBase, epochLog, signerDir,
                   seqVars, assembly>>

\* a compliance check that returns the answer without reconciling it
ReceiveCheckAnswerUnrecorded(c, outcome) ==
    /\ life[c].pc = "check"
    /\ IF outcome = HttpError
       THEN /\ lastOut' = [op |-> "checkInvoiceCompliance", status |-> "BadRequest"]
            /\ UNCHANGED <<invoiceDocs, submission>>
       ELSE /\ lastOut' = [op |-> "checkInvoiceCompliance", status |-> "ok"]
            /\ UNCHANGED <<invoiceDocs, submission>>
    /\ life' = [life EXCEPT ![c] = Idle]
    /\ UNCHANGED <<gateway, egsUnit, revokedUnits, epochBase, epochLog, signerDir, seqVars, assembly>>

\* checkInvoiceCompliance from the answer on: an error is thrown to the
\* caller, an answer is reconciled
ReceiveCheckAnswer(c, outcome) ==
    /\ life[c].pc = "check"
    /\ IF outcome = HttpError
       THEN /\ lastOut' = [op |-> "checkInvoiceCompliance", status |-> "BadRequest"]
            /\ UNCHANGED <<invoiceDocs, submission>>
       ELSE /\ lastOut' = [op |-> "checkInvoiceCompliance", status |-> "ok"]
            /\ Reconcile(life[c].invoice, outcome)
    /\ life' = [life EXCEPT ![c] = Idle]
    /\ UNCHANGED <<gateway, egsUnit, revokedUnits, epochBase, epochLog, signerDir, seqVars, assembly>>

\* the JSON column of a row that holds no answer yet
NoJson == [json |-> Null]

\* InvoiceRepository.createSubmission: zatcaSubmission.create with the
\* columns' defaults for an invoice that exists; invoiceId is unique
CreateSubmission(id, submissionType) ==
    /\ id \in DOMAIN invoiceDocs
    /\ IF id \in DOMAIN submission
       THEN /\ lastOut' = [op |-> "createSubmission", status |-> "P2002"]
            /\ UNCHANGED submission
       ELSE /\ lastOut' = [op |-> "createSubmission", status |-> "ok"]
            /\ submission' = submission @@ (id :>
                  [submissionType |-> submissionType,
                   zatcaStatus |-> "PENDING",
                   reportingStatus |-> Null,
                   clearanceStatus |-> Null,
                   zatcaResponse |-> NoJson,
                   attemptCount |-> 0])
    /\ UNCHANGED <<invoiceDocs, gateway, lifeVars, seqVars, assembly>>

\* a unit that has been taken through issueCsid and issueProductionCsid
LiveUnit(run, compliance, production) ==
    WithProduction(WithCompliance(NewUnit(CsrOf(run), KeyOf(run)), IssuedData(compliance)), production)

\* the router at work: ACME is live, acme has no credentials yet
InitRouter ==
    /\ invoiceCounter = ("ACME" :> 4)
    /\ invoices = <<>>
    /\ year = CHOOSE y \in Years : \A z \in Years : y <= z
    /\ alloc = [p \in Procs |-> Idle]
    /\ allocLog = <<>>
    /\ counterFile = NoCounterFiles
    /\ egsUnit = [cn \in CommonNames |->
                    IF cn = "ACME"
                    THEN <<LiveUnit(1,
                             CHOOSE r \in ComplianceResponses : r.requestID = "1001",
                             CHOOSE r \in ProductionResponses : r.requestID = "2001")>>
                    ELSE <<NewUnit(CsrOf(2), KeyOf(2))>>]
    /\ life = [c \in Clients \cup Callers |-> Idle]
    /\ lastOut = NoCall
    /\ revokedUnits = {}
    /\ epochBase = <<>>
    /\ epochLog = <<>>
    /\ signerDir = SignerFilesOf(2)
    /\ invoiceDocs = SignedInvoices
    /\ submission = <<>>
    /\ gateway = NoRequest
    /\ assembly = NoAssembly

NextRouter ==
    \/ \E c \in Callers, dto \in SubmitZatcaDtos : SubmitToZatca(c, dto, MaxRequests)
    \/ \E c \in Callers : SendToZatca(c)
    \/ \E c \in Callers, o \in ZatcaResults \cup {HttpError} : ReceiveAnswer(c, o)
    \/ \E c \in LiveCallers, dto \in SubmitZatcaDtos :
          CheckInvoiceCompliance(c, dto, MaxRequests)
    \/ \E c \in LiveCallers : SendComplianceCheck(c)
    \/ \E c \in LiveCallers, o \in ZatcaResults \cup {HttpError} : ReceiveCheckAnswer(c, o)
    \/ \E id \in SignedIds : CreateSubmission(id, SubmissionTypeOf(invoiceDocs[id]))

SpecRouter == InitRouter /\ [][NextRouter]_vars

\* the submissions that overlap: signed invoices of the live unit
OverlapDtos ==
    [commonName : {"ACME"},
     invoiceSerialNumber : {"ACME-SD-25-00000001", "ACME-SI-25-00000002",
                            "ACME-SI-25-00000003"}]
OverlapOutcomes ==
    {HttpError,
     [reportingStatus |-> Null, clearanceStatus |-> Null, validationStatus |-> "PASS"],
     [reportingStatus |-> "REPORTED", clearanceStatus |-> Null, validationStatus |-> Null]}

\* two callers whose submissions overlap
NextOverlap ==
    \/ \E c \in Clients, dto \in OverlapDtos : SubmitToZatca(c, dto, MaxOverlap)
    \/ \E c \in Clients : SendToZatca(c)
    \/ \E c \in Clients, o \in OverlapOutcomes : ReceiveAnswer(c, o)
    \/ \E id \in DOMAIN invoiceDocs :
          CreateSubmission(id, SubmissionTypeOf(invoiceDocs[id]))

SpecOverlap == InitRouter /\ [][NextOverlap]_vars

\* the requests and answers of a unit's life that is followed end to end
LiveUnits == {"ACME"}

LiveDtos ==
    [commonName : CommonNames,
     invoiceSerialNumber : {"ACME-SI-25-00000002", "ACME-SI-25-00000003",
                            "ACME-SI-25-00000004", "ACME-SI-25-00000009"}]
LiveOutcomes ==
    {HttpError,
     [reportingStatus |-> Null, clearanceStatus |-> Null, validationStatus |-> "PASS"]}
LiveClients == {"a"}

\* ACME is onboarded and has signed invoices, acme is not onboarded
InitLive ==
    /\ invoiceCounter = ("ACME" :> 4)
    /\ invoices = <<>>
    /\ year = CHOOSE y \in Years : \A z \in Years : y <= z
    /\ alloc = [p \in Procs |-> Idle]
    /\ allocLog = <<>>
    /\ counterFile = NoCounterFiles
    /\ egsUnit = [cn \in CommonNames |-> IF cn = "ACME" THEN <<NewUnit(CsrOf(1), KeyOf(1))>> ELSE <<>>]
    /\ life = [c \in Clients \cup Callers |-> Idle]
    /\ lastOut = NoCall
    /\ revokedUnits = {}
    /\ epochBase = <<>>
    /\ epochLog = <<>>
    /\ signerDir = SignerFilesOf(1)
    /\ invoiceDocs = SignedInvoices
    /\ submission = <<>>
    /\ gateway = NoRequest
    /\ assembly = NoAssembly

\* the unit whose life is followed beyond its onboarding
\* one caller of the lifecycle; checks and submissions at any moment
NextLive ==
    \/ \E c \in LiveClients, dto \in [commonName : LiveUnits, complete : BOOLEAN] :
          OnboardEgs(c, dto)
    \/ \E c \in LiveClients, cn \in LiveUnits : IssueCsid(c, cn)
    \/ \E c \in LiveClients, r \in ComplianceResponses \cup {HttpError} : FinishOnboarding(c, r)
    \/ \E c \in LiveClients, cn \in LiveUnits : IssueProductionCsid(c, cn)
    \/ \E c \in LiveClients, r \in ProductionResponses \cup {HttpError} : FinishProduction(c, r)
    \/ \E c \in LiveClients, cn \in LiveUnits : RevokeEgs(c, cn)
    \/ \E c \in LiveCallers, dto \in LiveDtos : SubmitToZatca(c, dto, MaxLiveRequests)
    \/ \E c \in LiveCallers : SendToZatca(c)
    \/ \E c \in LiveCallers, o \in LiveOutcomes : ReceiveAnswer(c, o)
    \/ \E c \in LiveCallers, dto \in LiveDtos :
          CheckInvoiceCompliance(c, dto, MaxLiveRequests)
    \/ \E c \in LiveCallers : SendComplianceCheck(c)
    \/ \E c \in LiveCallers, o \in LiveOutcomes : ReceiveCheckAnswer(c, o)

SpecLive == InitLive /\ [][NextLive]_vars

\* the same unit and its invoices while a second unit, acme, is onboarded in
\* the directory the two names share: one caller of the lifecycle and of
\* onboardEgs, and the router's calls on one invoice
UnitDtos ==
    [commonName : LiveUnits, invoiceSerialNumber : {"ACME-SI-25-00000002"}]

NextKeys ==
    \/ \E c \in LiveClients, dto \in OnboardEgsDtos : OnboardEgs(c, dto)
    \/ \E c \in LiveClients : WriteSignerConfig(c)
    \/ \E dir \in DOMAIN signerDir, run \in 1..MaxSignerRuns : SignerWritesKey(dir, run)
    \/ \E dir \in DOMAIN signerDir, run \in 1..MaxSignerRuns : SignerWritesCsr(dir, run)
    \/ \E c \in LiveClients, result \in SignerResults : RunSigner(c, result)
    \/ \E c \in LiveClients : CheckSignerKey(c)
    \/ \E c \in LiveClients : ReadSignerKey(c)
    \/ \E c \in LiveClients, f \in GeneratedCsrFiles : FindGeneratedCsr(c, f)
    \/ \E c \in LiveClients : RenameCsr(c)
    \/ \E c \in LiveClients : ReadCsr(c)
    \/ \E c \in LiveClients : CreateEgsUnit(c)
    \/ \E c \in LiveClients, cn \in LiveUnits : IssueCsid(c, cn)
    \/ \E c \in LiveClients, r \in UnitComplianceResponses \cup {HttpError} :
          FinishOnboarding(c, r)
    \/ \E c \in LiveClients, cn \in LiveUnits : IssueProductionCsid(c, cn)
    \/ \E c \in LiveClients, r \in UnitProductionResponses \cup {HttpError} :
          FinishProduction(c, r)
    \/ \E c \in LiveClients, cn \in LiveUnits : RevokeEgs(c, cn)
    \/ \E c \in LiveCallers, dto \in UnitDtos : SubmitToZatca(c, dto, MaxLiveRequests)
    \/ \E c \in LiveCallers : SendToZatca(c)
    \/ \E c \in LiveCallers, o \in LiveOutcomes : ReceiveAnswer(c, o)
    \/ \E c \in LiveCallers, dto \in UnitDtos :
          CheckInvoiceCompliance(c, dto, MaxLiveRequests)
    \/ \E c \in LiveCallers : SendComplianceCheck(c)
    \/ \E c \in LiveCallers, o \in LiveOutcomes : ReceiveCheckAnswer(c, o)

SpecKeys == InitLive /\ [][NextKeys]_vars

(***************************************************************************)
(* The router serving two units that both hold credentials.                *)
(***************************************************************************)
SharedDtos ==
    [commonName : CommonNames,
     invoiceSerialNumber : {"ACME-SD-25-00000001", "ACME-SI-25-00000002",
                            "ACME-SI-25-00000003"}]

\* the authority's answers: none, a success signal, or an answer without one
SharedOutcomes ==
    OverlapOutcomes
      \cup {[reportingStatus |-> "NOT_REPORTED", clearanceStatus |-> Null,
              validationStatus |-> "ERROR"]}

\* ACME is live and owns the signed invoices; acme has been through issueCsid
InitShared ==
    /\ invoiceCounter = ("ACME" :> 4)
    /\ invoices = <<>>
    /\ year = CHOOSE y \in Years : \A z \in Years : y <= z
    /\ alloc = [p \in Procs |-> Idle]
    /\ allocLog = <<>>
    /\ counterFile = NoCounterFiles
    /\ egsUnit = [cn \in CommonNames |->
                    IF cn = "ACME"
                    THEN <<LiveUnit(1,
                             CHOOSE r \in ComplianceResponses : r.requestID = "1001",
                             CHOOSE r \in ProductionResponses : r.requestID = "2001")>>
                    ELSE <<WithCompliance(NewUnit(CsrOf(2), KeyOf(2)),
                             IssuedData(CHOOSE r \in ComplianceResponses :
                                           r.requestID = "1002"))>>]
    /\ life = [c \in Clients \cup Callers |-> Idle]
    /\ lastOut = NoCall
    /\ revokedUnits = {}
    /\ epochBase = <<>>
    /\ epochLog = <<>>
    /\ signerDir = SignerFilesOf(2)
    /\ invoiceDocs = SignedInvoices
    /\ submission = <<>>
    /\ gateway = NoRequest
    /\ assembly = NoAssembly

NextShared ==
    \/ \E c \in Callers, dto \in SharedDtos : SubmitToZatca(c, dto, MaxRequests)
    \/ \E c \in Callers : SendToZatca(c)
    \/ \E c \in Callers, o \in SharedOutcomes : ReceiveAnswer(c, o)
    \/ \E c \in Callers, dto \in SharedDtos : CheckInvoiceCompliance(c, dto, MaxRequests)
    \/ \E c \in Callers : SendComplianceCheck(c)
    \/ \E c \in Callers, o \in SharedOutcomes : ReceiveCheckAnswer(c, o)
    \/ \E id \in DOMAIN invoiceDocs :
          CreateSubmission(id, SubmissionTypeOf(invoiceDocs[id]))

SpecShared == InitShared /\ [][NextShared]_vars

\* two callers whose submissions overlap and get any kind of answer
NextConcurrent ==
    \/ \E c \in Clients, dto \in OverlapDtos : SubmitToZatca(c, dto, MaxOverlap)
    \/ \E c \in Clients : SendToZatca(c)
    \/ \E c \in Clients, o \in SharedOutcomes : ReceiveAnswer(c, o)
    \/ \E id \in DOMAIN invoiceDocs :
          CreateSubmission(id, SubmissionTypeOf(invoiceDocs[id]))

SpecConcurrent == InitRouter /\ [][NextConcurrent]_vars

(***************************************************************************)
(* One unit through overlapping lifecycle calls, with calls of the router. *)
(***************************************************************************)
\* the unit has been created by onboardEgs and has signed invoices
InitUnit ==
    /\ invoiceCounter = ("ACME" :> 4)
    /\ invoices = <<>>
    /\ year = CHOOSE y \in Years : \A z \in Years : y <= z
    /\ alloc = [p \in Procs |-> Idle]
    /\ allocLog = <<>>
    /\ counterFile = NoCounterFiles
    /\ egsUnit = [cn \in CommonNames |->
                    IF cn \in RaceUnits THEN <<NewUnit(CsrOf(1), KeyOf(1))>> ELSE <<>>]
    /\ life = [c \in Clients \cup Callers |-> Idle]
    /\ lastOut = NoCall
    /\ revokedUnits = {}
    /\ epochBase = <<>>
    /\ epochLog = <<>>
    /\ signerDir = SignerFilesOf(1)
    /\ invoiceDocs = SignedInvoices
    /\ submission = <<>>
    /\ gateway = NoRequest
    /\ assembly = NoAssembly

\* two callers of the lifecycle; checks and submissions at any moment
NextUnit ==
    \/ \E c \in Clients, dto \in [commonName : RaceUnits, complete : BOOLEAN] :
          OnboardEgs(c, dto)
    \/ \E c \in Clients, cn \in RaceUnits : IssueCsid(c, cn)
    \/ \E c \in Clients, r \in UnitComplianceResponses \cup {HttpError} : FinishOnboarding(c, r)
    \/ \E c \in Clients, cn \in RaceUnits : IssueProductionCsid(c, cn)
    \/ \E c \in Clients, r \in UnitProductionResponses \cup {HttpError} : FinishProduction(c, r)
    \/ \E c \in Clients, cn \in RaceUnits : RevokeEgs(c, cn)
    \/ \E c \in LiveCallers, dto \in UnitDtos : SubmitToZatca(c, dto, MaxLiveRequests)
    \/ \E c \in LiveCallers : SendToZatca(c)
    \/ \E c \in LiveCallers, o \in LiveOutcomes : ReceiveAnswer(c, o)
    \/ \E c \in LiveCallers, dto \in UnitDtos :
          CheckInvoiceCompliance(c, dto, MaxLiveRequests)
    \/ \E c \in LiveCallers : SendComplianceCheck(c)
    \/ \E c \in LiveCallers, o \in LiveOutcomes : ReceiveCheckAnswer(c, o)
    \/ \E id \in SignedIds : CreateSubmission(id, SubmissionTypeOf(invoiceDocs[id]))

SpecUnit == InitUnit /\ [][NextUnit]_vars

(***************************************************************************)
(* The type prefix, as a function of the request.                          *)
(***************************************************************************)
\* a handler holds a request whose prefix has not been chosen yet
InitPrefix ==
    /\ invoiceCounter = <<>>
    /\ invoices = <<>>
    /\ year = CHOOSE y \in Years : \A z \in Years : y <= z
    /\ alloc \in {[p \in Procs |-> IF p = "p1" THEN [pc |-> "request", dto |-> d] ELSE Idle] :
                     d \in SignInvoiceDtos}
    /\ allocLog = <<>>
    /\ counterFile = NoCounterFiles
    /\ egsUnit = [cn \in CommonNames |->
                    <<NewUnit(CsrOf(FirstRunOf(cn)), KeyOf(FirstRunOf(cn)))>>]
    /\ life = [c \in Clients \cup Callers |-> Idle]
    /\ lastOut = NoCall
    /\ revokedUnits = {}
    /\ epochBase = <<>>
    /\ epochLog = <<>>
    /\ signerDir = SignerFilesOf(2)
    /\ invoiceDocs = <<>>
    /\ submission = <<>>
    /\ gateway = NoRequest
    /\ assembly = NoAssembly

\* lines 47-59 of generateNextSerialNumber applied to the request held
ChoosePrefix(p) ==
    /\ alloc[p].pc = "request"
    /\ alloc' = [alloc EXCEPT ![p] =
            [pc |-> "prefixed", dto |-> alloc[p].dto, prefix |-> PrefixOf(alloc[p].dto)]]
    /\ UNCHANGED <<invoiceCounter, invoices, year, allocLog, counterFile>>
    /\ UNCHANGED <<lifeVars, lastOut, routerVars, assembly>>

NextPrefix == \E p \in Procs : ChoosePrefix(p)

SpecPrefix == InitPrefix /\ [][NextPrefix]_vars

(***************************************************************************)
(* The assembler: generateInvoiceXml called on one request.                *)
(***************************************************************************)
InitAssemble ==
    /\ invoiceCounter = <<>>
    /\ invoices = <<>>
    /\ year = CHOOSE y \in Years : \A z \in Years : y <= z
    /\ alloc = [p \in Procs |-> Idle]
    /\ allocLog = <<>>
    /\ counterFile = NoCounterFiles
    /\ egsUnit = [cn \in CommonNames |->
                    <<NewUnit(CsrOf(FirstRunOf(cn)), KeyOf(FirstRunOf(cn)))>>]
    /\ life = [c \in Clients \cup Callers |-> Idle]
    /\ lastOut = NoCall
    /\ revokedUnits = {}
    /\ epochBase = <<>>
    /\ epochLog = <<>>
    /\ signerDir = SignerFilesOf(2)
    /\ invoiceDocs = <<>>
    /\ submission = <<>>
    /\ gateway = NoRequest
    /\ assembly \in [request : AssembleRequests, clock : Clocks, documents : {<<>>}]

\* one call of generateInvoiceXml on the request, at the clock reading given
CallGenerateInvoiceXml(uuid) ==
    /\ Len(assembly.documents) < MaxCalls
    /\ assembly' = [assembly EXCEPT !.documents =
            Append(@, GenerateInvoiceXml(assembly.request, assembly.clock, uuid))]
    /\ UNCHANGED <<seqVars, lifeVars, lastOut, routerVars>>

NextAssemble == \E uuid \in Uuids : CallGenerateInvoiceXml(uuid)

SpecAssemble == InitAssemble /\ [][NextAssemble]_vars

(***************************************************************************)
(* One sign request taken through the prefix rule and the assembler.       *)
(***************************************************************************)
InitDocument ==
    /\ invoiceCounter = <<>>
    /\ invoices = <<>>
    /\ year = CHOOSE y \in Years : \A z \in Years : y <= z
    /\ allocLog = <<>>
    /\ counterFile = NoCounterFiles
    /\ egsUnit = [cn \in CommonNames |->
                    <<NewUnit(CsrOf(FirstRunOf(cn)), KeyOf(FirstRunOf(cn)))>>]
    /\ life = [c \in Clients \cup Callers |-> Idle]
    /\ lastOut = NoCall
    /\ revokedUnits = {}
    /\ epochBase = <<>>
    /\ epochLog = <<>>
    /\ signerDir = SignerFilesOf(2)
    /\ invoiceDocs = <<>>
    /\ submission = <<>>
    /\ gateway = NoRequest
    /\ \E dto \in {d \in SignInvoiceDtos : d.commonName = "ACME"},
          icv \in CounterNumbers,
          previousHash \in PreviousHashes,
          billingReferenceId \in BillingReferenceIds,
          clock \in Clocks :
          /\ alloc = [p \in Procs |->
                        IF p = "p1" THEN [pc |-> "request", dto |-> dto] ELSE Idle]
          /\ assembly =
                [request |-> [invoice |-> HeaderOf(dto, icv, previousHash,
                                                   billingReferenceId),
                              lineItems |-> <<>>],
                 clock |-> clock,
                 documents |-> <<>>]

NextDocument ==
    \/ \E p \in Procs : ChoosePrefix(p)
    \/ \E uuid \in Uuids : CallGenerateInvoiceXml(uuid)

SpecDocument == InitDocument /\ [][NextDocument]_vars

(***************************************************************************)
(* The file-backed sequencer: generateNextSerialNumber over counters.json, *)
(* one action per await that touches the file.                             *)
(***************************************************************************)
\* let counters = {}; JSON.parse(content) when the file exists and parses
LoadCounters(file) == IF file.state = "json" THEN file.counters ELSE <<>>

\* counters[prefix] || 0
CountOf(counters, prefix) ==
    IF prefix \in DOMAIN counters THEN counters[prefix] ELSE 0

\* counters[prefix] = nextCount
WithCount(counters, prefix, nextCount) ==
    [k \in DOMAIN counters \cup {prefix} |->
       IF k = prefix THEN nextCount ELSE counters[k]]

\* the requests made of the file-backed sequencer
FileDtos ==
    [commonName : CommonNames,
     invoiceTypeCode : {"388", "381"},
     invoiceTypeCodeName : {"0100000", "0200000"},
     customerType : {Null}]

\* lines 18-65: the prefix, exists and readFile, the parse, the increment
LoadCounterFile(p, dto, limit) ==
    /\ alloc[p].pc = "idle"
    /\ Started < limit
    /\ LET prefix == PrefixOf(dto)
           counters == LoadCounters(counterFile[DirOf(dto.commonName)])
           nextCount == CountOf(counters, prefix) + 1
       IN alloc' = [alloc EXCEPT ![p] =
            [pc |-> "save",
             commonName |-> dto.commonName,
             prefix |-> prefix,
             yy |-> year,
             counters |-> WithCount(counters, prefix, nextCount),
             counter |-> nextCount]]
    /\ UNCHANGED <<invoiceCounter, invoices, year, allocLog, counterFile>>
    /\ UNCHANGED <<lifeVars, lastOut, routerVars, assembly>>

\* the length of the file's content: JSON.stringify(counters, null, 2) has one
\* line per key, and the lines of the counters kept here are equally long
SizeOf(file) ==
    CASE file.state = "json" -> Cardinality(DOMAIN file.counters)
      [] file.state = "garbled" -> file.size
      [] OTHER -> 0

\* lines 72-75, fs.writeFile opening the file for writing: its content is
\* gone until the new content is written
OpenCounterFile(p) ==
    /\ alloc[p].pc = "save"
    /\ counterFile' = [counterFile EXCEPT ![DirOf(alloc[p].commonName)] =
                         [state |-> "empty"]]
    /\ alloc' = [alloc EXCEPT ![p] = [@ EXCEPT !.pc = "write"]]
    /\ UNCHANGED <<invoiceCounter, invoices, year, allocLog>>
    /\ UNCHANGED <<lifeVars, lastOut, routerVars, assembly>>

\* the content of the file after `counters` is written from its start: a
\* longer content another call has written since this call opened the file
\* keeps its tail, and the file no longer parses
Overlaid(file, counters) ==
    IF SizeOf(file) > Cardinality(DOMAIN counters)
    THEN [state |-> "garbled", size |-> SizeOf(file)]
    ELSE [state |-> "json", counters |-> counters]

\* lines 72-75, fs.writeFile writing the content through its own descriptor
WriteCounterFile(p) ==
    /\ alloc[p].pc = "write"
    /\ counterFile' = [counterFile EXCEPT ![DirOf(alloc[p].commonName)] =
                         Overlaid(@, alloc[p].counters)]
    /\ alloc' = [alloc EXCEPT ![p] = [@ EXCEPT !.pc = "return"]]
    /\ UNCHANGED <<invoiceCounter, invoices, year, allocLog>>
    /\ UNCHANGED <<lifeVars, lastOut, routerVars, assembly>>

\* lines 77-83: the serial number is built and the result returned
ReturnSerialNumber(p) ==
    /\ alloc[p].pc = "return"
    /\ LET a == alloc[p] IN
       allocLog' = Append(allocLog,
                     [commonName |-> a.commonName,
                      prefix |-> a.prefix,
                      yy |-> a.yy,
                      counter |-> a.counter,
                      serialNumber |-> SerialNumberOf(a.commonName, a.prefix,
                                                      a.yy, a.counter)])
    /\ alloc' = [alloc EXCEPT ![p] = Idle]
    /\ UNCHANGED <<invoiceCounter, invoices, year, counterFile>>
    /\ UNCHANGED <<lifeVars, lastOut, routerVars, assembly>>

\* no unit has a counters.json yet
InitFile ==
    /\ invoiceCounter = <<>>
    /\ invoices = <<>>
    /\ year = CHOOSE y \in Years : \A z \in Years : y <= z
    /\ alloc = [p \in Procs |-> Idle]
    /\ allocLog = <<>>
    /\ counterFile = NoCounterFiles
    /\ egsUnit = [cn \in CommonNames |->
                    <<NewUnit(CsrOf(FirstRunOf(cn)), KeyOf(FirstRunOf(cn)))>>]
    /\ life = [c \in Clients \cup Callers |-> Idle]
    /\ lastOut = NoCall
    /\ revokedUnits = {}
    /\ epochBase = <<>>
    /\ epochLog = <<>>
    /\ signerDir = SignerFilesOf(2)
    /\ invoiceDocs = <<>>
    /\ submission = <<>>
    /\ gateway = NoRequest
    /\ assembly = NoAssembly

\* allocations of two request handlers over one counters.json
NextFile ==
    \/ \E p \in Procs, dto \in FileDtos : LoadCounterFile(p, dto, MaxFileCalls)
    \/ \E p \in Procs : OpenCounterFile(p)
    \/ \E p \in Procs : WriteCounterFile(p)
    \/ \E p \in Procs : ReturnSerialNumber(p)

SpecFile == InitFile /\ [][NextFile]_vars

(***************************************************************************)
(* Sequencer claims.                                                       *)
(***************************************************************************)
\* indices of the results returned for one series, in order of return
ReturnedFor(commonName) ==
    {i \in 1..Len(allocLog) : allocLog[i].commonName = commonName}

\* C1: for every series key, the sequence numbers returned by any number of
\* calls, concurrent or not, are pairwise distinct, and a call that starts
\* after another call for the same key has returned gets a strictly larger
\* number than that call (floor is the largest number returned before the
\* call started).
C1_DistinctAndIncreasing ==
    /\ \A i, j \in 1..Len(allocLog) :
          (i # j /\ allocLog[i].commonName = allocLog[j].commonName)
             => allocLog[i].counter # allocLog[j].counter
    /\ \A i \in 1..Len(allocLog) : allocLog[i].counter > allocLog[i].floor

\* two calls for one key overlapped and both returned
C1_Witness ==
    \E i, j \in 1..Len(allocLog) :
        /\ i < j
        /\ allocLog[i].commonName = allocLog[j].commonName
        /\ ~allocLog[j].sequential
        /\ allocLog[j].floor = 0

\* C2: in a sequence of allocate-then-persist operations on one series, the
\* first allocation returns the genesis constant as previousDigest and every
\* later one returns the digest stored for the invoice issued just before
\* it (issuance order), whatever the invoice types.
C2_ChainFollowsIssuance ==
    \A i \in 1..Len(allocLog) :
        allocLog[i].sequential => allocLog[i].previousHash = allocLog[i].issuedHash

\* the allocations of a series whose counter update is applied and whose
\* result is on its way to the caller
Answering(commonName) ==
    {p \in Procs : alloc[p].pc = "upserted" /\ alloc[p].result.commonName = commonName}

\* the numbers handed out for a series: returned, or on their way
HandedOut(commonName) ==
    {allocLog[i].counter : i \in ReturnedFor(commonName)}
       \cup {alloc[p].result.counter : p \in Answering(commonName)}

\* lastNumber of a series, 0 while the series has no counter row
LastNumber(commonName) ==
    IF commonName \in DOMAIN invoiceCounter THEN invoiceCounter[commonName] ELSE 0

C3_GaplessState ==
    \A k \in CommonNames :
        /\ HandedOut(k) = 1..LastNumber(k)
        /\ Cardinality(ReturnedFor(k)) + Cardinality(Answering(k)) = LastNumber(k)

C3_KthGetsK ==
    \A p \in Procs :
        (alloc[p].pc = "counter" /\ alloc'[p].pc = "upserted")
           => alloc'[p].result.counter = Cardinality(HandedOut(alloc[p].commonName)) + 1

C3_NeverDecreases ==
    \A k \in DOMAIN invoiceCounter :
        k \in DOMAIN invoiceCounter' /\ invoiceCounter'[k] >= invoiceCounter[k]

\* C3: the k-th allocation of a series, in the order in which the counter
\* updates are applied, gets sequence number k, so the numbers handed out
\* are exactly 1..lastNumber, none skipped and none handed out twice, and
\* the stored lastNumber never decreases.
C3_Gapless == [](C3_GaplessState) /\ [][C3_NeverDecreases /\ C3_KthGetsK]_vars

\* one series has handed out two numbers to overlapping calls, and the
\* second number was returned before the first
C3_Witness ==
    /\ Len(allocLog) = 2
    /\ allocLog[1].commonName = allocLog[2].commonName
    /\ allocLog[1].counter = 2
    /\ allocLog[2].counter = 1
    /\ invoiceCounter[allocLog[1].commonName] = 2

\* C4: no two allocations, in the same series or in different series, return
\* the same serial number string.
C4_GloballyUnique ==
    \A i, j \in 1..Len(allocLog) :
        i # j => allocLog[i].serialNumber # allocLog[j].serialNumber

(***************************************************************************)
(* Lifecycle claims.                                                       *)
(***************************************************************************)
\* the rows one lifecycle call can leave when it runs alone on row
\* (<<>> or <<unit>>); an answer the call never obtained may be any answer
ApplySerially(row, entry) ==
    CASE entry.op = "onboardEgs" ->
           IF row # <<>> \/ entry.resp = HttpError THEN {row}
           ELSE IF entry.resp = Unknown
           THEN {row} \cup {<<NewUnit(CsrOf(n), KeyOf(m))>> : n, m \in 1..MaxSignerRuns}
           ELSE {<<entry.resp>>}
      [] entry.op = "issueCsid" ->
           IF row = <<>> \/ entry.resp = HttpError THEN {row}
           ELSE IF row[1].csr = Null THEN {row}
           ELSE IF entry.resp = Unknown
           THEN {row} \cup {<<WithCompliance(row[1], IssuedData(r))>> :
                              r \in ComplianceResponses}
           ELSE {<<WithCompliance(row[1], IssuedData(entry.resp))>>}
      [] entry.op = "issueProductionCsid" ->
           IF row = <<>> \/ entry.resp = HttpError THEN {row}
           ELSE IF ~HasComplianceCredentials(row[1]) THEN {row}
           ELSE IF entry.resp = Unknown
           THEN {row} \cup {<<WithProduction(row[1], r)>> : r \in ProductionResponses}
           ELSE {<<WithProduction(row[1], entry.resp)>>}
      [] entry.op = "revokeEgs" ->
           IF row = <<>> THEN {row} ELSE {<<Revoked(row[1])>>}

\* the rows left by running the calls log[i], i \in rest, one after another
\* in some order, starting from row
RECURSIVE SerialOutcomes(_, _, _)
SerialOutcomes(row, log, rest) ==
    IF rest = {} THEN {row}
    ELSE UNION {UNION {SerialOutcomes(next, log, rest \ {i}) :
                         next \in ApplySerially(row, log[i])} : i \in rest}

\* C5: whenever the overlapping onboardEgs, issueCsid, issueProductionCsid and
\* revokeEgs calls on one unit have all ended, the unit's row is the row that
\* running those same calls one after another in some order would have left.
C5_Serializable ==
    \A cn \in DOMAIN epochLog :
       InFlightOn(cn) = {} =>
          egsUnit[cn] \in SerialOutcomes(epochBase[cn], epochLog[cn],
                                         1..Len(epochLog[cn]))

\* the unit holds production credentials: issueProductionCsid has succeeded
\* and the unit has not been revoked since
IsLive(cn) ==
    /\ egsUnit[cn] # <<>>
    /\ egsUnit[cn][1].productionBinarySecurityToken # Null

C6_ActiveIsProduction ==
    \A cn \in CommonNames :
       IsLive(cn) =>
          /\ egsUnit[cn][1].binarySecurityToken = egsUnit[cn][1].productionBinarySecurityToken
          /\ egsUnit[cn][1].secret = egsUnit[cn][1].productionSecret
          /\ egsUnit[cn][1].requestId = egsUnit[cn][1].productionRequestId

C6_RequestsUseProduction ==
    (gateway'.n = gateway.n + 1 /\ IsLive("ACME")) =>
       /\ gateway'.certificate = StripPem(egsUnit["ACME"][1].productionBinarySecurityToken)
       /\ gateway'.secret = egsUnit["ACME"][1].productionSecret

\* C6: as long as a unit that went through issueProductionCsid is not revoked,
\* its active slot holds the production token, secret and request id, and
\* every submitToZatca and checkInvoiceCompliance request for it is
\* authenticated with the production token and secret.
C6_ProductionStaysActive ==
    [](C6_ActiveIsProduction) /\ [][C6_RequestsUseProduction]_vars

\* C7: a unit that has been revoked holds no token and no secret in any of
\* its three slots, whatever lifecycle calls follow the revocation.
C7_RevokedStaysEmpty ==
    \A cn \in revokedUnits :
       /\ egsUnit[cn] # <<>>
       /\ egsUnit[cn][1].binarySecurityToken = Null
       /\ egsUnit[cn][1].secret = Null
       /\ egsUnit[cn][1].complianceBinarySecurityToken = Null
       /\ egsUnit[cn][1].complianceSecret = Null
       /\ egsUnit[cn][1].productionBinarySecurityToken = Null
       /\ egsUnit[cn][1].productionSecret = Null

\* the six token and secret fields of a unit are empty
TokensAndSecretsEmpty(unit) ==
    /\ unit.binarySecurityToken = Null
    /\ unit.secret = Null
    /\ unit.complianceBinarySecurityToken = Null
    /\ unit.complianceSecret = Null
    /\ unit.productionBinarySecurityToken = Null
    /\ unit.productionSecret = Null

\* this step ends a call that was awaiting the authority with a failure, or
\* ends an onboardEgs call at the Signer's failure
C11_FailureStep ==
    \/ /\ \E c \in Clients : /\ life[c].pc \in {"compliance", "production"}
                             /\ life'[c].pc = "idle"
       /\ lastOut'.status = "BadRequest"
    \/ /\ \E c \in Clients : /\ life[c].pc \in {"signer", "signed", "list", "rename"}
                             /\ life'[c].pc = "idle"
       /\ lastOut'.op = "onboardEgs"
       /\ lastOut'.status \in {"SignerError", "NoKeyFile", "NoCsrFile", "ENOENT"}

\* C11: a step in which the authority's failure ends issueCsid or
\* issueProductionCsid, or the Signer's failure ends onboardEgs, changes no
\* row of EgsUnit: no credential field is written and no unit is created.
C11_FailureLeavesUnit == [][C11_FailureStep => egsUnit' = egsUnit]_vars

\* issueCsid has just failed at the authority on a unit that keeps the
\* credentials it held before
C11_Witness ==
    /\ lastOut.op = "issueCsid"
    /\ lastOut.status = "BadRequest"
    /\ egsUnit[lastOut.commonName] # <<>>
    /\ egsUnit[lastOut.commonName][1].complianceBinarySecurityToken # Null
    /\ egsUnit[lastOut.commonName][1].binarySecurityToken # Null

C12_GoesToAuthority ==
    \E c \in Clients : life[c].pc = "idle" /\ life'[c].pc = "production"

\* C12: issueProductionCsid goes on to call the authority only for a unit
\* whose compliance token, compliance secret and compliance request id are
\* all present.
C12_NeedsComplianceSlot ==
    [][C12_GoesToAuthority =>
         \A c \in Clients :
            (life[c].pc = "idle" /\ life'[c].pc = "production") =>
               LET unit == egsUnit[life'[c].commonName][1]
               IN /\ unit.complianceBinarySecurityToken # Null
                  /\ unit.complianceSecret # Null
                  /\ unit.complianceRequestId # Null]_vars

\* this step is a revokeEgs call that succeeded
RevokeStep ==
    /\ lastOut'.op = "revokeEgs"
    /\ lastOut'.status = "ok"
    /\ life' = life

\* C13: a successful revokeEgs leaves the token, the secret and the request
\* id of the active, compliance and production slots empty and leaves the
\* unit's CSR and private key as they were.
C13_RevokeClearsSlots ==
    [][RevokeStep =>
         LET cn == lastOut'.commonName
             unit == egsUnit'[cn][1]
         IN /\ TokensAndSecretsEmpty(unit)
            /\ unit.requestId = Null
            /\ unit.complianceRequestId = Null
            /\ unit.productionRequestId = Null
            /\ unit.csr = egsUnit[cn][1].csr
            /\ unit.privateKey = egsUnit[cn][1].privateKey]_vars

\* C14: revokeEgs on an existing unit succeeds and leaves all its token and
\* secret fields empty; on a unit whose token and secret fields are already
\* empty it succeeds again and changes nothing.
C14_RevokeIdempotent ==
    [][(lastOut'.op = "revokeEgs" /\ life' = life
        /\ egsUnit[lastOut'.commonName] # <<>>) =>
         LET cn == lastOut'.commonName
         IN /\ lastOut'.status = "ok"
            /\ egsUnit'[cn] # <<>>
            /\ TokensAndSecretsEmpty(egsUnit'[cn][1])
            /\ \A other \in CommonNames \ {cn} : egsUnit'[other] = egsUnit[other]
            /\ TokensAndSecretsEmpty(egsUnit[cn][1]) => egsUnit' = egsUnit]_vars

\* a unit that held credentials has been revoked
C14_Witness ==
    /\ lastOut.op = "revokeEgs"
    /\ lastOut.status = "ok"
    /\ lastOut.commonName \in revokedUnits
    /\ egsUnit[lastOut.commonName][1].requestId # Null
    /\ TokensAndSecretsEmpty(egsUnit[lastOut.commonName][1])

\* this step ends an onboardEgs call; a step that moves no caller and writes
\* the Signer's directory is a write of a Signer's process, not a call's end
OnboardEnds ==
    /\ lastOut'.op = "onboardEgs"
    /\ \A c \in Clients : life'[c] = life[c] \/ life'[c].pc = "idle"
    /\ life' = life => signerDir' = signerDir

\* the ways an onboardEgs call ends without creating a unit
OnboardFailures ==
    {"AlreadyExists", "P2002", "SignerError", "NoKeyFile", "NoCsrFile", "ENOENT"}

\* C15: an onboardEgs call that ends when its identifier has a unit ends with
\* an error and leaves every row of EgsUnit, the existing unit's CSR, private
\* key and credential slots included, unchanged; a call that finds the unit
\* when it looks the identifier up is rejected at once.
C15_ExistingUnitKept ==
    [][(OnboardEnds /\ lastOut'.status # "BadRequest"
        /\ egsUnit[lastOut'.commonName] # <<>>) =>
         /\ lastOut'.status \in OnboardFailures
         /\ life' = life => lastOut'.status = "AlreadyExists"
         /\ egsUnit' = egsUnit]_vars

\* onboardEgs has been rejected for a unit that holds credentials
C15_Witness ==
    /\ lastOut.op = "onboardEgs"
    /\ lastOut.status \in {"AlreadyExists", "P2002"}
    /\ egsUnit[lastOut.commonName] # <<>>
    /\ egsUnit[lastOut.commonName][1].binarySecurityToken # Null

\* the compliance slot and the active slot of a unit
ComplianceSlot(unit) ==
    <<unit.complianceBinarySecurityToken, unit.complianceSecret, unit.complianceRequestId>>
ActiveSlot(unit) ==
    <<unit.binarySecurityToken, unit.secret, unit.requestId>>

\* this step ends an issueCsid call with success
IssueCsidSucceeds ==
    /\ \E c \in Clients : life[c].pc = "compliance" /\ life'[c].pc = "idle"
    /\ lastOut'.status = "ok"

\* C16: the step that ends issueCsid with success leaves the token, secret
\* and request id of one answer of the authority in the compliance slot and
\* the same three values in the active slot; no step gives the compliance
\* slot new credentials without giving the active slot the same.
C16_SlotsWrittenTogether ==
    [][/\ IssueCsidSucceeds =>
            LET unit == egsUnit'[lastOut'.commonName][1]
            IN /\ ComplianceSlot(unit) = ActiveSlot(unit)
               /\ \E r \in ComplianceResponses :
                     /\ StripPem(unit.binarySecurityToken) = r.binarySecurityToken
                     /\ unit.secret = r.secret
                     /\ unit.requestId = r.requestID
       /\ \A cn \in CommonNames :
            (/\ egsUnit[cn] # <<>>
             /\ egsUnit'[cn] # <<>>
             /\ ComplianceSlot(egsUnit'[cn][1]) # ComplianceSlot(egsUnit[cn][1])
             /\ egsUnit'[cn][1].complianceBinarySecurityToken # Null) =>
               ActiveSlot(egsUnit'[cn][1]) = ComplianceSlot(egsUnit'[cn][1])]_vars

\* issueCsid has succeeded on a unit that was in production: both slots hold
\* the new compliance credentials
C16_Witness ==
    /\ lastOut.op = "issueCsid"
    /\ lastOut.status = "ok"
    /\ egsUnit[lastOut.commonName][1].productionBinarySecurityToken # Null
    /\ egsUnit[lastOut.commonName][1].complianceBinarySecurityToken # Null
    /\ ComplianceSlot(egsUnit[lastOut.commonName][1])
         = ActiveSlot(egsUnit[lastOut.commonName][1])

(***************************************************************************)
(* Router claims.                                                          *)
(***************************************************************************)
\* the rows of ZatcaSubmission that hold an answer of the authority
ReconciledRows ==
    {id \in DOMAIN submission : submission[id].zatcaResponse # NoJson}

\* the step in which a submitToZatca call that sent its request ends adds one
\* to the invoice's attemptCount and leaves a row
C8_SubmitRecorded ==
    \A c \in Callers :
       (life[c].pc = "gateway" /\ life'[c].pc = "idle") =>
          /\ life[c].invoice \in DOMAIN submission'
          /\ AttemptCount(submission', life[c].invoice)
               = AttemptCount(submission, life[c].invoice) + 1

\* C8: every submitToZatca call that sends the invoice to the authority adds
\* one to the invoice's attemptCount and leaves a ZatcaSubmission row,
\* whether the authority answers, rejects the request or does not answer.
C8_EverySubmitRecorded == [][C8_SubmitRecorded]_vars

\* C9 as stated: a stored answer with reportingStatus REPORTED has status
\* REPORTED, one with clearanceStatus CLEARED has status CLEARED, one with
\* neither and no PASS has status FAILED, for clearance and reporting alike.
C9_StatusFollowsSignal ==
    \A id \in ReconciledRows :
       LET s == submission[id]
           r == s.zatcaResponse
       IN /\ r.reportingStatus = "REPORTED" => s.zatcaStatus = "REPORTED"
          /\ r.clearanceStatus = "CLEARED" => s.zatcaStatus = "CLEARED"
          /\ (/\ r.reportingStatus # "REPORTED"
              /\ r.clearanceStatus # "CLEARED"
              /\ r.validationStatus # "PASS") => s.zatcaStatus = "FAILED"

\* the success value of a submission kind
SuccessOf(submissionType) ==
    IF submissionType = "CLEARANCE" THEN "CLEARED" ELSE "REPORTED"

\* C9 amended: a stored answer with reportingStatus REPORTED or
\* clearanceStatus CLEARED has the success status of the invoice's submission
\* kind (CLEARED for clearance, REPORTED for reporting); one with neither
\* signal and no PASS has status FAILED.
C9_StatusFollowsKind ==
    \A id \in ReconciledRows :
       LET s == submission[id]
           r == s.zatcaResponse
       IN /\ (r.reportingStatus = "REPORTED" \/ r.clearanceStatus = "CLEARED")
               => s.zatcaStatus = SuccessOf(s.submissionType)
          /\ (/\ r.reportingStatus # "REPORTED"
              /\ r.clearanceStatus # "CLEARED"
              /\ r.validationStatus # "PASS") => s.zatcaStatus = "FAILED"

\* a clearance invoice answered with reportingStatus REPORTED alone
C9_Witness ==
    \E id \in ReconciledRows :
       /\ submission[id].submissionType = "CLEARANCE"
       /\ submission[id].zatcaResponse.reportingStatus = "REPORTED"
       /\ submission[id].zatcaResponse.clearanceStatus # "CLEARED"
       /\ submission[id].zatcaResponse.validationStatus # "PASS"
       /\ submission[id].zatcaStatus = "CLEARED"

\* C10: the status stored for a reconciled invoice, in ZatcaSubmission and in
\* Invoice, is the success value of its submission kind exactly when the
\* answer has reportingStatus REPORTED, clearanceStatus CLEARED or
\* validationResults.status PASS, and is FAILED in every other case.
C10_SuccessIffSignal ==
    \A id \in ReconciledRows :
       LET s == submission[id]
           r == s.zatcaResponse
           signal == \/ r.reportingStatus = "REPORTED"
                     \/ r.clearanceStatus = "CLEARED"
                     \/ r.validationStatus = "PASS"
       IN /\ s.submissionType = SubmissionTypeOf(invoiceDocs[id])
          /\ s.zatcaStatus = SuccessOf(s.submissionType) <=> signal
          /\ ~signal => s.zatcaStatus = "FAILED"
          /\ invoiceDocs[id].status = s.zatcaStatus

\* both a PASS-only answer stored as success and a signal-free answer stored
\* as FAILED have been reconciled
C10_Witness ==
    /\ \E id \in DOMAIN submission :
          /\ submission[id].zatcaResponse =
               [reportingStatus |-> Null, clearanceStatus |-> Null,
                validationStatus |-> "PASS"]
          /\ submission[id].zatcaStatus = SuccessOf(submission[id].submissionType)
    /\ \E id \in DOMAIN submission :
          /\ submission[id].zatcaResponse =
               [reportingStatus |-> "NOT_REPORTED", clearanceStatus |-> Null,
                validationStatus |-> "ERROR"]
          /\ submission[id].zatcaStatus = "FAILED"

\* this step sends an invoice to the clearance or the reporting endpoint
SubmitRequestSent ==
    /\ gateway'.n = gateway.n + 1
    /\ gateway'.endpoint \in {"clearance", "reporting"}

\* the row read holds a token and a secret
TokensPresent(row) ==
    row # <<>> /\ row[1].binarySecurityToken # Null /\ row[1].secret # Null

\* this step ends a submitToZatca call with the not-ready error: at once for
\* the invoice, or when the row read reaches the handler
SubmitNotReady ==
    /\ lastOut'.op = "submitToZatca"
    /\ lastOut'.status = "NotFound"
    /\ \/ life' = life
       \/ \E c \in Callers : life[c].pc = "submitRead" /\ life'[c].pc = "idle"

\* C17: a submitToZatca call that ends with the not-ready error sends no
\* request and changes no ZatcaSubmission row, attemptCount or invoice
\* status; a call gets as far as reading the unit only for an invoice found
\* with signed XML and digest; a call that read a unit without row, token or
\* secret ends with the not-ready error as its next step, and one that read
\* a token and a secret sends the request; a request carries an invoice
\* hash, a token and a secret that are present; and a submission row or an
\* invoice status changes only when a request that was sent is answered or
\* when the pending row of an invoice is created.
C17_NotReadyFailsFast ==
    [][/\ SubmitNotReady =>
            /\ gateway' = gateway
            /\ submission' = submission
            /\ invoiceDocs' = invoiceDocs
       /\ \A c \in Callers :
            (life[c].pc = "idle" /\ life'[c].pc = "submitRead") =>
               /\ life'[c].invoice \in DOMAIN invoiceDocs
               /\ invoiceDocs[life'[c].invoice].signedXml # Null
               /\ invoiceDocs[life'[c].invoice].currentInvoiceHash # Null
               /\ TokensPresent(life'[c].unit)
                     = TokensPresent(egsUnit[life'[c].commonName])
               /\ gateway' = gateway
       /\ \A c \in Callers :
            (life[c].pc = "submitRead" /\ life'[c] # life[c]) =>
               IF TokensPresent(life[c].unit)
               THEN SubmitRequestSent /\ life'[c].pc = "gateway"
               ELSE SubmitNotReady /\ life'[c].pc = "idle"
       /\ SubmitRequestSent =>
            /\ gateway'.invoice \in DOMAIN invoiceDocs
            /\ invoiceDocs[gateway'.invoice].signedXml # Null
            /\ invoiceDocs[gateway'.invoice].currentInvoiceHash # Null
            /\ gateway'.invoiceHash # Null
            /\ gateway'.certificate # Null
            /\ gateway'.secret # Null
       /\ (submission' # submission \/ invoiceDocs' # invoiceDocs) =>
            \/ \E c \in Callers : /\ life[c].pc \in {"gateway", "check"}
                                  /\ life'[c].pc = "idle"
            \/ lastOut'.op = "createSubmission"]_vars

\* a submission has ended with the not-ready error for a revoked unit without
\* token; nothing was sent or recorded
C17_Witness ==
    /\ lastOut.op = "submitToZatca"
    /\ lastOut.status = "NotFound"
    /\ "ACME" \in revokedUnits
    /\ egsUnit["ACME"][1].binarySecurityToken = Null
    /\ gateway.n = 0
    /\ submission = <<>>

\* C18: a submitToZatca request goes to the clearance endpoint exactly when
\* the invoice's stored invoiceTypeCodeName starts with "01" and to the
\* reporting endpoint otherwise, and when its answer is reconciled the
\* submissionType recorded for the invoice is CLEARANCE for the clearance
\* endpoint and REPORTING for the reporting endpoint.
C18_RoutedByTypeName ==
    [][/\ SubmitRequestSent =>
            LET id == gateway'.invoice
            IN /\ gateway'.endpoint = "clearance"
                    <=> StartsWith01(invoiceDocs[id].invoiceTypeCodeName)
               /\ gateway'.endpoint = "reporting"
                    <=> ~StartsWith01(invoiceDocs[id].invoiceTypeCodeName)
       /\ \A c \in Callers :
            (/\ life[c].pc = "gateway"
             /\ life'[c].pc = "idle"
             /\ lastOut'.status = "ok") =>
               /\ life[c].invoice \in DOMAIN submission'
               /\ submission'[life[c].invoice].submissionType =
                     IF life[c].endpoint = "clearance" THEN "CLEARANCE"
                     ELSE "REPORTING"]_vars

\* a standard invoice has gone to clearance and its row, created by that
\* submission, says CLEARANCE
C18_Witness ==
    /\ lastOut.op = "submitToZatca"
    /\ lastOut.status = "ok"
    /\ gateway.endpoint = "clearance"
    /\ invoiceDocs[gateway.invoice].invoiceTypeCodeName = "0100000"
    /\ submission[gateway.invoice].submissionType = "CLEARANCE"
    /\ submission[gateway.invoice].attemptCount = 1

\* this step reconciles an answer for the invoice id
Reconciles(id) ==
    \E c \in Clients :
       /\ life[c].pc = "gateway"
       /\ life[c].invoice = id
       /\ life'[c].pc = "idle"
       /\ lastOut'.status = "ok"

\* C19: every reconciliation of an invoice, also of one already CLEARED or
\* REPORTED and also while other submissions of it are under way, adds
\* exactly one to its attemptCount, the first one setting it to 1, and no
\* other step changes it: after k reconciliations attemptCount is k.  An
\* invoice already CLEARED or REPORTED is sent to the authority again.
C19_AttemptsCounted ==
    [][\A id \in DOMAIN invoiceDocs :
          /\ Reconciles(id) =>
               AttemptCount(submission', id) = AttemptCount(submission, id) + 1
          /\ ~Reconciles(id) =>
               AttemptCount(submission', id) = AttemptCount(submission, id)]_vars

\* an invoice reconciled three times, the last two while already CLEARED
C19_Witness ==
    /\ "i1" \in DOMAIN submission
    /\ submission["i1"].attemptCount = 3
    /\ submission["i1"].zatcaStatus = "CLEARED"
    /\ gateway.n = 3

(***************************************************************************)
(* Sequencer failure claims.                                               *)
(***************************************************************************)
\* this step ends an allocation at a failure of the database
AllocationFails ==
    \/ /\ lastOut'.status = "LookupFailed"
       /\ \E p \in Procs : alloc[p].pc = "lookup" /\ alloc'[p].pc = "idle"
    \/ /\ lastOut'.status = "UpsertFailed"
       /\ \E p \in Procs : alloc[p].pc = "counter" /\ alloc'[p].pc = "idle"

\* every counter equals the number of results returned for its key or on
\* their way to the caller
CountersMatchReturns ==
    /\ \A k \in DOMAIN invoiceCounter :
          invoiceCounter[k] =
             Cardinality({i \in 1..Len(allocLog) : allocLog[i].commonName = k})
               + Cardinality({p \in Procs : /\ alloc[p].pc = "upserted"
                                            /\ alloc[p].result.commonName = k})
    /\ \A i \in 1..Len(allocLog) : allocLog[i].commonName \in DOMAIN invoiceCounter

\* C20: an allocation that fails at the lookup of the last invoice or at the
\* counter update returns no serial number and leaves every counter as it
\* was, so at any moment each counter equals the number of serial numbers
\* returned for its key or on their way to the caller, whatever failed and
\* whatever ran concurrently.
C20_FailureLeavesCounter ==
    /\ [](CountersMatchReturns)
    /\ [][AllocationFails =>
            /\ invoiceCounter' = invoiceCounter
            /\ allocLog' = allocLog
            /\ invoices' = invoices]_vars

\* a counter update has failed after another allocation of the same key
\* returned number 1, and one more allocation is under way
C20_Witness ==
    /\ lastOut.status = "UpsertFailed"
    /\ Len(allocLog) = 1
    /\ invoiceCounter = (allocLog[1].commonName :> 1)
    /\ \E p \in Procs : alloc[p].pc = "counter"

(***************************************************************************)
(* Sequencer claims on series, prefixes and serial numbers.                *)
(***************************************************************************)
\* the counter row of a series: <<>> when the series has none
CounterRow(counters, k) == IF k \in DOMAIN counters THEN <<counters[k]>> ELSE <<>>

\* handler p moves its allocation forward in this step: the call begins,
\* the last invoice is looked up, the counter is updated or the result is
\* returned
AllocationStep(p) ==
    \/ alloc[p].pc = "idle" /\ alloc'[p].pc = "lookup"
    \/ alloc[p].pc = "lookup" /\ alloc'[p].pc = "counter"
    \/ alloc[p].pc = "counter" /\ alloc'[p].pc = "upserted"
    \/ alloc[p].pc = "upserted" /\ alloc'[p].pc = "allocated"

\* the series key of an allocation in flight
SeriesOf(a) ==
    IF a.pc \in {"lookup", "counter"} THEN a.commonName ELSE a.result.commonName

\* the previous digest an allocation returns belongs to its own series
DigestsOfOwnSeries ==
    \A i \in 1..Len(allocLog) :
        \/ allocLog[i].previousHash = DEFAULT_FIRST_HASH
        \/ \E j \in 1..Len(invoices) :
              /\ invoices[j].commonName = allocLog[i].commonName
              /\ invoices[j].currentInvoiceHash = allocLog[i].previousHash

\* the numbers handed out for a series are 1 up to the lastNumber of its
\* own counter row, whatever the other series did
NumbersOfOwnSeries ==
    \A k \in CommonNames : HandedOut(k) = 1..LastNumber(k)

\* C21: allocations on different series keys are independent.  A step of an
\* allocation on series A leaves the counter row of every other series B as
\* it was, leaves what a lookup on B would return as previous digest as it
\* was, and leaves the allocations of B in flight and the results already
\* returned for B untouched; so for every series the numbers handed out are
\* 1..lastNumber of that series and the previous digest returned is the
\* genesis constant or a digest stored for an invoice of that same series,
\* under any interleaving.
C21_SeriesIndependent ==
    /\ [](DigestsOfOwnSeries /\ NumbersOfOwnSeries)
    /\ [][\A p \in Procs : AllocationStep(p) =>
             /\ \A k \in CommonNames \ {SeriesOf(alloc'[p])} :
                   /\ CounterRow(invoiceCounter', k) = CounterRow(invoiceCounter, k)
                   /\ PreviousHashOf(FindLastInvoice(invoices', k))
                         = PreviousHashOf(FindLastInvoice(invoices, k))
             /\ \A q \in Procs \ {p} : alloc'[q] = alloc[q]
             /\ \A i \in 1..Len(allocLog) : allocLog'[i] = allocLog[i]]_vars

\* two allocations on different series overlapped; each returned number 1
C21_Witness ==
    /\ Len(allocLog) = 2
    /\ allocLog[1].commonName # allocLog[2].commonName
    /\ allocLog[1].counter = 1
    /\ allocLog[2].counter = 1
    /\ ~allocLog[2].sequential

\* the request is a business-to-business one: type name "01..." or a B2B
\* counterparty
IsBusinessRequest(dto) ==
    dto.invoiceTypeCodeName = "0100000" \/ dto.customerType = "B2B"

\* C22: the type prefix is chosen with the precedence refund, adjustment,
\* business-to-business, consumer: type code 381 gives RE whatever the rest
\* of the request says, otherwise 383 gives AD, otherwise a business request
\* gives SD, otherwise SI; so a B2B credit or debit note gets RE or AD and
\* never SD.
C22_PrefixPrecedence ==
    \A p \in Procs :
        alloc[p].pc = "prefixed" =>
            LET dto == alloc[p].dto
                prefix == alloc[p].prefix
            IN  /\ dto.invoiceTypeCode = "381" => prefix = "RE"
                /\ dto.invoiceTypeCode = "383" => prefix = "AD"
                /\ dto.invoiceTypeCode = "388" =>
                      prefix = IF IsBusinessRequest(dto) THEN "SD" ELSE "SI"
                /\ (IsBusinessRequest(dto) /\ dto.invoiceTypeCode # "388")
                      => prefix # "SD"

\* a credit note of a B2B counterparty with a standard type name got RE
C22_Witness ==
    \E p \in Procs :
        /\ alloc[p].pc = "prefixed"
        /\ alloc[p].dto.invoiceTypeCode = "381"
        /\ alloc[p].dto.invoiceTypeCodeName = "0100000"
        /\ alloc[p].dto.customerType = "B2B"
        /\ alloc[p].prefix = "RE"

\* the entity code in upper case
UpperCased(commonName) ==
    CASE commonName = "ACME" -> "ACME"
      [] commonName = "acme" -> "ACME"

\* the last two digits of the year
TwoDigitYear(yy) ==
    CASE yy = 25 -> "25"
      [] yy = 26 -> "26"
      [] yy = 27 -> "27"

\* a small sequence number written with exactly 8 digits
EightDigits(n) ==
    CASE n = 1 -> "00000001"
      [] n = 2 -> "00000002"
      [] n = 3 -> "00000003"
      [] n = 4 -> "00000004"

\* C23: every serial returned is the upper-cased entity code, the type
\* prefix, the 2-digit year of the clock and the sequence number padded with
\* zeros to exactly 8 digits, joined by hyphens; in particular the first two
\* consumer-invoice allocations of a fresh series ACME in 2025 return
\* ACME-SI-25-00000001 and ACME-SI-25-00000002.
C23_SerialFormat ==
    \A i \in 1..Len(allocLog) :
        LET r == allocLog[i]
        IN  /\ r.serialNumber =
                  UpperCased(r.commonName) \o "-" \o r.prefix \o "-"
                     \o TwoDigitYear(r.yy) \o "-" \o EightDigits(r.counter)
            /\ Len(r.serialNumber) = Len(r.commonName) + 15
            /\ (r.commonName = "ACME" /\ r.prefix = "SI" /\ r.yy = 25)
                  => /\ r.counter = 1 => r.serialNumber = "ACME-SI-25-00000001"
                     /\ r.counter = 2 => r.serialNumber = "ACME-SI-25-00000002"

\* the first two allocations were consumer invoices of series ACME in 2025
C23_Witness ==
    /\ Len(allocLog) = 2
    /\ allocLog[1].serialNumber = "ACME-SI-25-00000001"
    /\ allocLog[2].serialNumber = "ACME-SI-25-00000002"
    /\ \A i \in 1..2 : allocLog[i].commonName = "ACME" /\ allocLog[i].prefix = "SI"
    /\ year = 25

(***************************************************************************)
(* Assembler claims.                                                       *)
(***************************************************************************)
RECURSIVE SumOf(_)
\* the sum of a sequence of amounts
SumOf(amounts) ==
    IF amounts = <<>> THEN 0
    ELSE amounts[1] + SumOf(SubSeq(amounts, 2, Len(amounts)))

\* the tax category a line is classified under in the document
CategoryOfLine(item) ==
    IF item.taxCategory = Null
    THEN (IF item.vatPercent > 0 THEN "S" ELSE "O")
    ELSE item.taxCategory

\* the taxable base of a line: its net amount plus charges minus allowances
TaxableBaseOfLine(item) ==
    item.taxExclusiveAmount
       + SumOf([i \in 1..Len(item.allowanceCharges) |->
                  IF item.allowanceCharges[i].chargeIndicator
                  THEN item.allowanceCharges[i].amount
                  ELSE 0 - item.allowanceCharges[i].amount])

\* the lines of the request that belong to a group
MembersOf(group, lineItems) ==
    {i \in 1..Len(lineItems) :
        /\ CategoryOfLine(lineItems[i]) = group.category
        /\ lineItems[i].vatPercent = group.percent}

\* the grouping property for one document assembled from lineItems
GroupedCorrectly(document, lineItems) ==
    LET groups == document.taxSubtotals
    IN  /\ SumOf([g \in 1..Len(groups) |-> groups[g].taxableAmount])
              = SumOf([i \in 1..Len(lineItems) |-> TaxableBaseOfLine(lineItems[i])])
        /\ \A i \in 1..Len(lineItems) :
              Cardinality({g \in 1..Len(groups) :
                              i \in MembersOf(groups[g], lineItems)}) = 1
        /\ Len(groups) =
              Cardinality({<<CategoryOfLine(lineItems[i]), lineItems[i].vatPercent>> :
                              i \in 1..Len(lineItems)})
        /\ \A g \in 1..Len(groups) :
              LET members == MembersOf(groups[g], lineItems)
              IN  /\ members # {}
                  /\ \A i \in members :
                        groups[g].taxableAmount >= TaxableBaseOfLine(lineItems[i])

\* C24: for any list of line items, in every assembled document the group
\* taxable bases add up to the sum of the line taxable bases (net amount
\* plus charges minus allowances), every line belongs to exactly one group,
\* no group is empty, and the number of groups is the number of distinct
\* (category, rate) pairs of the lines; two lines at 15% and one at 0% give
\* two groups.
C24_SubtotalsPartitionLines ==
    \A n \in 1..Len(assembly.documents) :
        GroupedCorrectly(assembly.documents[n], assembly.request.lineItems)

\* a document assembled from two standard-rated lines at 15%, one of them
\* with a discount and one without a category, and one exempt line at 0%:
\* two groups, 190.00 and 100.00
C24_Witness ==
    /\ Len(assembly.documents) >= 1
    /\ Len(assembly.request.lineItems) = 3
    /\ assembly.request.lineItems[1].vatPercent = 15
    /\ assembly.request.lineItems[1].taxCategory = "S"
    /\ assembly.request.lineItems[1].allowanceCharges # <<>>
    /\ assembly.request.lineItems[2].vatPercent = 0
    /\ assembly.request.lineItems[2].taxCategory = "E"
    /\ assembly.request.lineItems[2].allowanceCharges = <<>>
    /\ assembly.request.lineItems[3].vatPercent = 15
    /\ assembly.request.lineItems[3].taxCategory = Null
    /\ assembly.request.lineItems[3].allowanceCharges = <<>>
    /\ Len(assembly.documents[1].taxSubtotals) = 2
    /\ assembly.documents[1].taxSubtotals[1].taxableAmount = 19000
    /\ assembly.documents[1].taxSubtotals[2].taxableAmount = 10000

\* C25: generateInvoiceXml is deterministic: the calls made with one input
\* at one clock reading all return the same document.
C25_SameInputSameDocument ==
    \A i, j \in 1..Len(assembly.documents) :
        assembly.documents[i] = assembly.documents[j]

(***************************************************************************)
(* Router claims on the gateway calls.                                     *)
(***************************************************************************)
\* this step sends a request to the authority
GatewayCall == gateway'.n # gateway.n

\* C26: the core never retries a gateway call: one submitToZatca or
\* checkInvoiceCompliance invocation sends at most one request, when the
\* unit's row it has read reaches it, and the step it takes after sending
\* ends it without another request; when the request fails or times out the
\* invocation ends with the error surfaced (BadRequest) and without any
\* write to the submission or invoice tables; no other operation sends
\* requests to the invoice endpoints.
C26_OneRequestPerCall ==
    [][/\ gateway'.n \in {gateway.n, gateway.n + 1}
       /\ GatewayCall =>
             \E c \in Callers :
                \/ life[c].pc = "submitRead" /\ life'[c].pc = "gateway"
                \/ life[c].pc = "checkRead" /\ life'[c].pc = "check"
       /\ \A c \in Callers :
             (life[c].pc = "idle" /\ life'[c] # life[c]) =>
                /\ life'[c].pc \in {"submitRead", "checkRead"}
                /\ gateway' = gateway
       /\ \A c \in Callers :
             (life[c].pc \in {"submitRead", "checkRead"} /\ life'[c] # life[c]) =>
                \/ GatewayCall /\ life'[c].pc \in {"gateway", "check"}
                \/ ~GatewayCall /\ life'[c].pc = "idle"
       /\ \A c \in Callers :
             (life[c].pc \in {"gateway", "check"} /\ life'[c] # life[c]) =>
                /\ gateway' = gateway
                /\ life'[c].pc = "idle"
                /\ lastOut'.op = IF life[c].pc = "gateway" THEN "submitToZatca"
                                 ELSE "checkInvoiceCompliance"
                /\ lastOut'.status \in {"ok", "BadRequest"}
                /\ lastOut'.status = "BadRequest" =>
                      submission' = submission /\ invoiceDocs' = invoiceDocs]_vars

\* the one request sent so far failed: the call ended with the error and
\* nothing was recorded
C26_Witness ==
    /\ gateway.n = 1
    /\ lastOut.op \in {"submitToZatca", "checkInvoiceCompliance"}
    /\ lastOut.status = "BadRequest"
    /\ submission = <<>>

(***************************************************************************)
(* Lifecycle claims on the order of the onboarding steps.                  *)
(***************************************************************************)
\* the production slot of the unit has been written
HasProductionSlot(cn) ==
    /\ egsUnit[cn] # <<>>
    /\ egsUnit[cn][1].productionBinarySecurityToken # Null

\* a check of an invoice of the unit has been answered and reconciled
\* (submission rows are never deleted)
HasReconciledCheck(cn) ==
    \E id \in ReconciledRows : invoiceDocs[id].commonName = cn

\* C27: a production certificate is issued for a unit only after a
\* compliance check for that unit has passed: whenever the production slot
\* of a unit is written, a checkInvoiceCompliance call for that unit has
\* ended before with a CLEARED or REPORTED outcome, so that at least one
\* answer of the authority has been reconciled for the unit.
C27_ProductionAfterCheck ==
    \A cn \in CommonNames : HasProductionSlot(cn) => HasReconciledCheck(cn)

(***************************************************************************)
(* Sequencer claims on the chain under interleaving.                       *)
(***************************************************************************)
\* C28: under any interleaving of allocations and invoice persistence on
\* one series, no two stored invoices of the series carry the same previous
\* digest: the chain never forks, each stored digest (and the genesis
\* constant) is the predecessor of at most one invoice.
C28_ChainNeverForks ==
    \A i, j \in 1..Len(invoices) :
        (i # j /\ invoices[i].commonName = invoices[j].commonName)
            => invoices[i].previousInvoiceHash # invoices[j].previousInvoiceHash

(***************************************************************************)
(* Router claims on credentials and on the stored status.                  *)
(***************************************************************************)
\* the unit that owns an invoice: the row its commonName column refers to
OwnerOf(id) == egsUnit[invoiceDocs[id].commonName][1]

\* C29: a submission authenticates with the active credentials of the unit
\* that owns the invoice submitted: the certificate and secret of every
\* request sent by submitToZatca or checkInvoiceCompliance are the active
\* token and secret of the unit named by the invoice's commonName.
C29_OwnersCredentials ==
    gateway.n > 0 =>
        /\ gateway.certificate = StripPem(OwnerOf(gateway.invoice).binarySecurityToken)
        /\ gateway.secret = OwnerOf(gateway.invoice).secret

\* the canonical status of an answer for a submission kind
StatusOfAnswer(answer, submissionType) ==
    IF \/ answer.reportingStatus = "REPORTED"
       \/ answer.clearanceStatus = "CLEARED"
       \/ answer.validationStatus = "PASS"
    THEN (IF submissionType = "CLEARANCE" THEN "CLEARED" ELSE "REPORTED")
    ELSE "FAILED"

\* an answer for the invoice id is reconciled in this step
ReconciledInStep(id) ==
    /\ id \in DOMAIN submission'
    /\ AttemptCount(submission', id) # AttemptCount(submission, id)

\* C30: after every reconciliation the status stored for the invoice, in
\* ZatcaSubmission and in Invoice, is a function of the answer reconciled by
\* that call and of the submission kind alone: it is the same whatever the
\* attempt count and the status stored before, so a later answer without a
\* success signal replaces an earlier CLEARED or REPORTED by FAILED.
C30_StatusOfLatestAnswer ==
    [][\A id \in DOMAIN invoiceDocs :
          ReconciledInStep(id) =>
             LET row == submission'[id]
             IN  /\ row.zatcaStatus = StatusOfAnswer(row.zatcaResponse, row.submissionType)
                 /\ invoiceDocs'[id].status = row.zatcaStatus
                 /\ row.reportingStatus = row.zatcaResponse.reportingStatus
                 /\ row.clearanceStatus = row.zatcaResponse.clearanceStatus]_vars

\* an invoice reconciled twice whose latest answer carries no success signal
\* is stored as FAILED, while the other invoice reconciled nothing
C30_Witness ==
    \E id \in DOMAIN submission :
        /\ submission[id].attemptCount = 2
        /\ submission[id].zatcaStatus = "FAILED"
        /\ invoiceDocs[id].status = "FAILED"
        /\ submission[id].zatcaResponse.validationStatus = "ERROR"
        /\ DOMAIN submission = {id}

(***************************************************************************)
(* Claims on one request seen by the sequencer, the assembler, the router. *)
(***************************************************************************)
\* C31: the genesis constant is used as previous digest only for the first
\* invoice of a series: a document assembled for an invoice that is not the
\* first of its series (invoice counter above 1) never carries the genesis
\* constant in place of a missing previous digest.
C31_GenesisOnlyFirst ==
    \A n \in 1..Len(assembly.documents) :
        assembly.documents[n].previousInvoiceHash = DEFAULT_FIRST_HASH
            => assembly.request.invoice.invoiceCounterNumber = 1

\* C32: the standard-versus-simplified classification is the same at every
\* stage: the sequencer gives a request the SD prefix exactly when the
\* assembler gives its document the clearance profile, and exactly when the
\* router sends an invoice with the document's type name to clearance.
C32_SameClassification ==
    \A p \in Procs :
        (alloc[p].pc = "prefixed" /\ assembly.documents # <<>>) =>
            LET document == assembly.documents[1]
                stored == [invoiceTypeCodeName |-> document.invoiceTypeCodeName]
            IN  /\ alloc[p].prefix = "SD" <=> document.profileID = "clearance:1.0"
                /\ document.profileID = "clearance:1.0"
                      <=> SubmissionTypeOf(stored) = "CLEARANCE"

\* C33: every assembled credit note (type code 381) or debit note (383)
\* contains a billing reference to the original document.
C33_NotesCarryReference ==
    \A n \in 1..Len(assembly.documents) :
        assembly.documents[n].invoiceTypeCode \in {"381", "383"}
            => assembly.documents[n].billingReference # <<>>

(***************************************************************************)
(* Router claims on reconciliation.                                        *)
(***************************************************************************)
\* C34: after every completed reconciliation, also when reconciliations of
\* one invoice overlap, the invoice's status equals the zatcaStatus of its
\* submission record: both are written by one transaction, and in no state
\* does an invoice with a reconciled submission record differ from it in
\* status.
C34_StatusesAgree ==
    \A id \in ReconciledRows :
        invoiceDocs[id].status = submission[id].zatcaStatus

\* two submissions of one invoice were sent; one has been reconciled as
\* FAILED while the other is still with the authority
C34_Witness ==
    \E id \in DOMAIN submission, c \in Clients :
        /\ gateway.n = 2
        /\ DOMAIN submission = {id}
        /\ submission[id].attemptCount = 1
        /\ submission[id].zatcaStatus = "FAILED"
        /\ life[c].pc = "gateway"
        /\ life[c].invoice = id

\* this step ends the checkInvoiceCompliance call of c with an answer
CheckAnswered(c) ==
    /\ life[c].pc = "check"
    /\ life'[c].pc = "idle"
    /\ lastOut'.status = "ok"

\* C35: a compliance check that receives an answer is reconciled like a
\* real submission: it raises the attempt count of the invoice by one and
\* sets the submission status and the invoice status to CLEARED or REPORTED
\* (by the invoice's kind) or to FAILED, as the answer says; an invoice can
\* so become CLEARED or REPORTED without any submitToZatca call.
C35_CheckIsReconciled ==
    [][\A c \in Callers : CheckAnswered(c) =>
          LET id == life[c].invoice
              row == submission'[id]
          IN  /\ lastOut'.op = "checkInvoiceCompliance"
              /\ AttemptCount(submission', id) = AttemptCount(submission, id) + 1
              /\ row.zatcaStatus = StatusOfAnswer(row.zatcaResponse, row.submissionType)
              /\ row.submissionType = SubmissionTypeOf(invoiceDocs[id])
              /\ invoiceDocs'[id].status = row.zatcaStatus]_vars

\* the only request ever sent was a compliance check, and its invoice is
\* stored as CLEARED
C35_Witness ==
    /\ gateway.n = 1
    /\ gateway.endpoint = "compliance"
    /\ lastOut = [op |-> "checkInvoiceCompliance", status |-> "ok"]
    /\ gateway.invoice \in DOMAIN submission
    /\ submission[gateway.invoice].attemptCount = 1
    /\ submission[gateway.invoice].zatcaStatus = "CLEARED"
    /\ invoiceDocs[gateway.invoice].status = "CLEARED"


(***************************************************************************)
(* Lifecycle claims with the router's calls in between.                    *)
(***************************************************************************)
\* cn was revoked and no issueCsid or issueProductionCsid has stored
\* credentials on it since
AfterRevoke(cn) ==
    /\ cn \in revokedUnits
    /\ egsUnit[cn] # <<>>
    /\ egsUnit[cn][1].binarySecurityToken = Null
    /\ egsUnit[cn][1].secret = Null

RouterOps == {"submitToZatca", "checkInvoiceCompliance"}

\* C36: from a successful revokeEgs until the next successful issueCsid or
\* issueProductionCsid on the unit, every step that a submitToZatca or
\* checkInvoiceCompliance call naming the unit takes after the read of the
\* unit's row ends the call with NotFound, without a request to the authority
\* and without a change to a submission record.
C36_RevokedUnitSendsNothing ==
    [][\A cn \in RaceUnits :
          AfterRevoke(cn) =>
             \A c \in Callers :
                (/\ life[c].pc \in {"submitRead", "checkRead"}
                 /\ life[c].commonName = cn
                 /\ life'[c] # life[c])
                => /\ life'[c].pc = "idle"
                   /\ lastOut'.op \in RouterOps
                   /\ lastOut'.status = "NotFound"
                   /\ gateway' = gateway
                   /\ submission' = submission]_vars


ActivePair(unit) == <<unit.binarySecurityToken, unit.secret>>
CompliancePair(unit) == <<unit.complianceBinarySecurityToken, unit.complianceSecret>>
ProductionPair(unit) == <<unit.productionBinarySecurityToken, unit.productionSecret>>

\* C37: whatever lifecycle calls were made on a unit, in any order and
\* overlap, its active token and secret are both empty, or they are the
\* stored compliance pair, or they are the stored production pair.
C37_ActivePairIsStored ==
    \A cn \in CommonNames :
       egsUnit[cn] # <<>>
       => \/ ActivePair(egsUnit[cn][1]) = <<Null, Null>>
          \/ ActivePair(egsUnit[cn][1]) = CompliancePair(egsUnit[cn][1])
          \/ ActivePair(egsUnit[cn][1]) = ProductionPair(egsUnit[cn][1])

\* a unit that was revoked and issued again holds a compliance pair and a
\* different production pair, the production pair being the active one
C37_Witness ==
    /\ "ACME" \in revokedUnits
    /\ egsUnit["ACME"] # <<>>
    /\ ActivePair(egsUnit["ACME"][1]) = ProductionPair(egsUnit["ACME"][1])
    /\ ActivePair(egsUnit["ACME"][1]) # CompliancePair(egsUnit["ACME"][1])
    /\ egsUnit["ACME"][1].binarySecurityToken # Null
    /\ egsUnit["ACME"][1].complianceBinarySecurityToken # Null


\* C38: the row of a unit is created with a CSR and a private key, and from
\* then on no step (issueCsid, issueProductionCsid, revokeEgs, an onboardEgs
\* that is rejected, a submission or a compliance check) removes the row or
\* changes either of the two.
C38_KeysWrittenOnce ==
    [][\A cn \in CommonNames :
          /\ (egsUnit[cn] = <<>> /\ egsUnit'[cn] # <<>>)
             => /\ egsUnit'[cn][1].csr # Null
                /\ egsUnit'[cn][1].privateKey # Null
          /\ egsUnit[cn] # <<>>
             => /\ egsUnit'[cn] # <<>>
                /\ egsUnit'[cn][1].csr = egsUnit[cn][1].csr
                /\ egsUnit'[cn][1].privateKey = egsUnit[cn][1].privateKey]_vars

\* a second unit has been created by onboardEgs in the same directory; the
\* first was revoked, holds production credentials again, a request was sent
\* for it, and an onboardEgs naming it has just been rejected: it still holds
\* the key material it was created with
C38_Witness ==
    /\ "ACME" \in revokedUnits
    /\ egsUnit["ACME"] # <<>>
    /\ egsUnit["ACME"][1].productionBinarySecurityToken # Null
    /\ egsUnit["acme"] # <<>>
    /\ gateway.n = 1
    /\ lastOut.op = "onboardEgs"
    /\ lastOut.status \in {"AlreadyExists", "P2002"}
    /\ egsUnit["ACME"][1].csr = CsrOf(1)
    /\ egsUnit["ACME"][1].privateKey = KeyOf(1)


(***************************************************************************)
(* The file-backed sequencer's claim.                                      *)
(***************************************************************************)
\* C39: two allocations the file-backed sequencer has returned for one unit
\* never carry the same sequence number, whatever their invoice types,
\* whether or not the calls overlapped, and whatever state the counter file
\* was read in.
C39_FileNumbersNeverRepeat ==
    \A i, j \in 1..Len(allocLog) :
        (i # j /\ allocLog[i].commonName = allocLog[j].commonName)
           => allocLog[i].counter # allocLog[j].counter

============================================================================
